---------------------------- MODULE Spec2Model ----------------------------
(***************************************************************************)
(* Verification model of the excel-process repository: the batch           *)
(* orchestrators (controllers/processor.py, teacher_processor.py,          *)
(* salary_processor.py), the template writer (models/excel_writer.py), the *)
(* region readers (models/excel_reader.py, teacher_excel_reader.py), the   *)
(* side-table reader (models/operation_table_reader.py) and the salary     *)
(* reader and writer (models/salary_excel_reader.py,                       *)
(* salary_excel_writer.py).                                                *)
(*                                                                         *)
(* Each component has its own specification (SpecBatch, SpecTeacher,       *)
(* SpecWriter, SpecReader, SpecSalary, SpecSalaryFiles, SpecHeader,        *)
(* SpecMerge, SpecNumber, SpecCell, SpecSheet, SpecFill, SpecCopy,         *)
(* SpecPerformance, SpecJoin); the variables of the components a           *)
(* specification does not exercise stay at their idle values.              *)
(***************************************************************************)
EXTENDS Integers, Sequences, FiniteSets, TLC

VARIABLES
    \* ---- ProcessorController (controllers/processor.py)
    excel_files,        \* result of scan_excel_files: sequence of [path, kind]
    pc,                 \* position of the worker thread "ExcelProcessor"
    i,                  \* loop index of `for i, file_path in enumerate(...)`, 1-based
    is_processing,      \* self.is_processing
    should_stop,        \* self.should_stop
    success_files,      \* local success_files (output paths)
    failed_files,       \* local failed_files (source paths)
    started,            \* indices whose process_single_file passed its should_stop check
    completed,          \* invocations of complete_callback: sequence of [success, failed]
    stop_requested,     \* history: stop_processing() was called after process_batch()
    started_after_stop, \* history: a file started although stop had been requested
    progress_raised,    \* history: some progress_callback call raised
    internal_error,     \* history: the outer `except Exception` of _process ran
    \* ---- TeacherProcessorController (controllers/teacher_processor.py)
    t_files,            \* result of scan_excel_files: sequence of [path, kind]
    t_pc,               \* position of the thread running _process
    t_is_processing,    \* self.is_processing
    t_should_stop,      \* self.should_stop
    task,               \* per submitted file: [st, role, result] of its pool task
    yielded,            \* futures already yielded by as_completed
    t_cur,              \* index of the future the loop body is working on
    t_success,          \* local success_files
    t_failed,           \* local failed_files
    t_completed,        \* invocations of complete_callback
    t_stop_requested,   \* history: stop_processing() was called after process_teacher_batch()
    t_started_after_stop, \* history: a task passed its should_stop check after a stop request
    t_progress_raised,  \* history: a progress_callback call raised
    t_internal_error,   \* history: the outer `except Exception` ran
    \* ---- ExcelWriter.create_output_file (models/excel_writer.py)
    w_data,             \* data_list: per row the set of fields whose value cannot be written
    w_pc,               \* position inside create_output_file
    w_path,             \* output_path: "none", "primary" or "alt" (name with time suffix)
    w_file,             \* what this call left at output_path: "absent", "template", "partial", "saved"
    w_book,             \* cells <<row, field>> written into the in-memory workbook
    w_row,              \* row_index of _write_data_safe, 1-based
    w_fld,              \* position in fill_positions
    w_result,           \* return value: "pending", "None" or "path"
    \* ---- ExcelReader._read_xlsx_data / _read_xls_data (models/excel_reader.py),
    \*      TeacherExcelReader._read_xlsx_teacher_data / _read_xls_teacher_data
    r_fmt,              \* "xlsx" (openpyxl) or "xls" (xlrd)
    r_cfg,              \* SOURCE_CONFIG: start_row, max_rows, required_fields, skip_empty_rows
    r_grid,             \* the worksheet: sequence of rows, a row maps a field to its cell
    current_row,        \* current_row (1-based for xlsx, 0-based for xls)
    data_list,          \* data_list: emitted rows, each with its _source_row
    r_examined,         \* history: 1-based rows whose cells the loop has read
    r_pc,               \* "loop" or "done"
    \* ---- SalaryExcelWriter._calculate_salary_data (models/salary_excel_writer.py)
    job_type,           \* job_type argument
    user_config,        \* self.user_config, as far as the computation reads it
    performance_value,  \* performance_data['total_performance_value']
    operation_data,     \* salary_data['operation_data']
    current_month_days, \* calendar.monthrange(now.year, now.month)[1] at the time of the call
    calculated,         \* the returned map
    returned_maps,      \* history: the maps returned by the calls made so far
    s_pc,               \* "call" or "returned"
    \* ---- SalaryProcessorController.process_files (controllers/salary_processor.py)
    sf_files,           \* result of scan_excel_files: sequence of salary files
    sf_templates,       \* self.template_paths: configured roles and those whose file exists
    sf_max_workers,     \* max_workers argument
    sf_pc,              \* position in process_files
    sf_i,               \* loop index of the single-thread loop, 1-based
    sf_is_processing,   \* self.is_processing
    sf_should_stop,     \* self.should_stop
    sf_result,          \* the result dict of process_files
    sf_file_result,     \* per file: outcome of its _process_single_file call
    sf_yielded,         \* futures already yielded by as_completed
    sf_processed,       \* history: files counted in processed_files
    sf_failed,          \* history: files counted in failed_files
    \* ---- OperationTableReader._find_manual_fee_headers / _find_attendance_headers
    h_kind,             \* "manual_fee" (Sheet1) or "attendance" (Sheet2)
    h_sheet,            \* the worksheet: sequence of rows, a row maps a column to its cell
    row_idx,            \* row_idx of the header search loop
    header_info,        \* header_info (0 for None)
    h_pc,               \* "scan", "validate" or "done"
    h_return,           \* the returned value (NotFound for None)
    \* ---- OperationTableReader._merge_operation_data
    manual_fee_data,    \* manual_fee_data: employee name -> counts
    attendance_data,    \* attendance_data: employee name -> attendance entry
    combined_data,      \* combined_data
    m_pc,               \* "loop" or "done"
    \* ---- _convert_to_number (both readers) and SalaryExcelReader._process_number_value
    n_function,         \* which conversion function is called
    n_string,           \* a numeric string without separators
    n_separator,        \* the thousands separator inserted: "," or the full-width comma
    n_plain,            \* result for the string without separators
    n_separated,        \* result for the string with separators
    n_pc,               \* "call" or "returned"
    \* ---- cell writes of the composers on a sheet with merged ranges
    c_writer,           \* the write path taken
    c_merged_cells,     \* how the installed openpyxl represents merged member cells
    c_ranges,           \* worksheet.merged_cells.ranges
    c_cells,            \* cell values by address << row, column >>
    c_target,           \* the address written to
    c_illegal,          \* the value holds characters openpyxl refuses
    c_pc,               \* "call", "returned" or "raised"
    \* ---- SalaryExcelWriter.process_multiple_salary_to_single_file: sheet names
    employees_data,     \* the employees, in insertion order
    emp_index,          \* index of the employee the loop is at
    sheets,             \* the sheets of output_workbook, in creation order
    sheet_pc,           \* "loop" or "done"
    \* ---- SalaryExcelWriter._fill_salary_data
    worksheet,          \* cell contents by address
    fill_pc,            \* "fill" or "done"
    \* ---- SalaryExcelWriter._copy_worksheet_content: row heights and column widths
    source_heights,     \* row_dimensions[row].height of the template sheet, by row
    source_widths,      \* column_dimensions[col].width of the template sheet, by column
    source_max_row,     \* source_ws.max_row
    target_heights,     \* row heights of the new sheet
    target_widths,      \* column widths of the new sheet
    copy_pc,            \* "rows", "columns" or "done"
    \* ---- SalaryExcelReader._extract_performance_data
    l_column,           \* the cells of column L, rows 1..max_row
    scan_row,           \* row_idx of the scan from the bottom
    last_value,         \* last_value
    total_performance_value,\* performance_data['total_performance_value']
    perf_pc,            \* "scan", "total" or "done"
    \* ---- join of employees and side table (controllers/salary_processor.py)
    side_rows,          \* the data rows of the side table: [name, entry]
    side_idx,           \* row being read
    operation_table,    \* self.operation_data: normalized name -> entry
    sheet_names,        \* the sheet names of the employee workbook
    sheet_idx,          \* sheet being processed
    joined,             \* per employee: [name, operation_data] as handed to the writer
    join_pc             \* "read", "employees" or "done"

batch_vars == << excel_files, pc, i, is_processing, should_stop, success_files,
                 failed_files, started, completed, stop_requested,
                 started_after_stop, progress_raised, internal_error >>

-----------------------------------------------------------------------------
teacher_vars == << t_files, t_pc, t_is_processing, t_should_stop, task, yielded,
                   t_cur, t_success, t_failed, t_completed, t_stop_requested,
                   t_started_after_stop, t_progress_raised, t_internal_error >>

writer_vars == << w_data, w_pc, w_path, w_file, w_book, w_row, w_fld, w_result >>

reader_vars == << r_fmt, r_cfg, r_grid, current_row, data_list, r_examined, r_pc >>

salary_vars == << job_type, user_config, performance_value, operation_data,
                 current_month_days, calculated, returned_maps, s_pc >>

salary_files_vars == << sf_files, sf_templates, sf_max_workers, sf_pc, sf_i,
                       sf_is_processing, sf_should_stop, sf_result, sf_file_result,
                       sf_yielded, sf_processed, sf_failed >>

header_vars == << h_kind, h_sheet, row_idx, header_info, h_pc, h_return >>

merge_vars == << manual_fee_data, attendance_data, combined_data, m_pc >>
number_vars == << n_function, n_string, n_separator, n_plain, n_separated, n_pc >>
cell_vars == << c_writer, c_merged_cells, c_ranges, c_cells, c_target, c_illegal, c_pc >>
sheet_vars == << employees_data, emp_index, sheets, sheet_pc >>
fill_vars == << worksheet, fill_pc >>
copy_vars == << source_heights, source_widths, source_max_row, target_heights, target_widths,
                copy_pc >>
performance_vars == << l_column, scan_row, last_value, total_performance_value, perf_pc >>
join_vars == << side_rows, side_idx, operation_table, sheet_names, sheet_idx, joined,
                join_pc >>

not_batch_vars == << teacher_vars, writer_vars, reader_vars, salary_vars, salary_files_vars,
                     header_vars, merge_vars, number_vars, cell_vars, sheet_vars, fill_vars,
                     copy_vars, performance_vars, join_vars >>
not_teacher_vars == << batch_vars, writer_vars, reader_vars, salary_vars, salary_files_vars,
                       header_vars, merge_vars, number_vars, cell_vars, sheet_vars, fill_vars,
                       copy_vars, performance_vars, join_vars >>
not_writer_vars == << batch_vars, teacher_vars, reader_vars, salary_vars, salary_files_vars,
                      header_vars, merge_vars, number_vars, cell_vars, sheet_vars, fill_vars,
                      copy_vars, performance_vars, join_vars >>
not_reader_vars == << batch_vars, teacher_vars, writer_vars, salary_vars, salary_files_vars,
                      header_vars, merge_vars, number_vars, cell_vars, sheet_vars, fill_vars,
                      copy_vars, performance_vars, join_vars >>
not_salary_vars == << batch_vars, teacher_vars, writer_vars, reader_vars, salary_files_vars,
                      header_vars, merge_vars, number_vars, cell_vars, sheet_vars, fill_vars,
                      copy_vars, performance_vars, join_vars >>
not_salary_files_vars == << batch_vars, teacher_vars, writer_vars, reader_vars, salary_vars,
                            header_vars, merge_vars, number_vars, cell_vars, sheet_vars,
                            fill_vars, copy_vars, performance_vars, join_vars >>
not_header_vars == << batch_vars, teacher_vars, writer_vars, reader_vars, salary_vars,
                      salary_files_vars, merge_vars, number_vars, cell_vars, sheet_vars,
                      fill_vars, copy_vars, performance_vars, join_vars >>
not_merge_vars == << batch_vars, teacher_vars, writer_vars, reader_vars, salary_vars,
                     salary_files_vars, header_vars, number_vars, cell_vars, sheet_vars,
                     fill_vars, copy_vars, performance_vars, join_vars >>
not_number_vars == << batch_vars, teacher_vars, writer_vars, reader_vars, salary_vars,
                      salary_files_vars, header_vars, merge_vars, cell_vars, sheet_vars,
                      fill_vars, copy_vars, performance_vars, join_vars >>
not_cell_vars == << batch_vars, teacher_vars, writer_vars, reader_vars, salary_vars,
                    salary_files_vars, header_vars, merge_vars, number_vars, sheet_vars,
                    fill_vars, copy_vars, performance_vars, join_vars >>
not_sheet_vars == << batch_vars, teacher_vars, writer_vars, reader_vars, salary_vars,
                     salary_files_vars, header_vars, merge_vars, number_vars, cell_vars,
                     fill_vars, copy_vars, performance_vars, join_vars >>
not_fill_vars == << batch_vars, teacher_vars, writer_vars, reader_vars, salary_vars,
                    salary_files_vars, header_vars, merge_vars, number_vars, cell_vars,
                    sheet_vars, copy_vars, performance_vars, join_vars >>
not_copy_vars == << batch_vars, teacher_vars, writer_vars, reader_vars, salary_vars,
                    salary_files_vars, header_vars, merge_vars, number_vars, cell_vars,
                    sheet_vars, fill_vars, performance_vars, join_vars >>
not_performance_vars == << batch_vars, teacher_vars, writer_vars, reader_vars, salary_vars,
                           salary_files_vars, header_vars, merge_vars, number_vars, cell_vars,
                           sheet_vars, fill_vars, copy_vars, join_vars >>
not_join_vars == << batch_vars, teacher_vars, writer_vars, reader_vars, salary_vars,
                    salary_files_vars, header_vars, merge_vars, number_vars, cell_vars,
                    sheet_vars, fill_vars, copy_vars, performance_vars >>

vars == << batch_vars, teacher_vars, writer_vars, reader_vars, salary_vars, salary_files_vars,
           header_vars, merge_vars, number_vars, cell_vars, sheet_vars, fill_vars, copy_vars,
           performance_vars, join_vars >>

-----------------------------------------------------------------------------
(* Bounds of the model *)

MaxFiles == 3
MaxTeacherFiles == 2
MaxDataRows == 2
MaxGridRows == 2
MaxCalls == 2
MaxSalaryFiles == 2
MaxHeaderRows == 2
MaxEmployees == 2
MaxChars == 5
MaxSheetRows == 2
MaxSheetCols == 3
MaxSheets == 3
MaxTemplateRows == 2
MaxTemplateCols == 2
MaxColumnRows == 3
MaxSideRows == 2
MaxWorkbookSheets == 2

-----------------------------------------------------------------------------
(* Files found by the recursive directory scan *)

\* os.walk(directory) yields every file of every sub-directory: the full paths
\* are distinct, the base names need not be.
AllPaths ==
    << [dir |-> "d1", stem |-> "a"], [dir |-> "d1", stem |-> "b"],
       [dir |-> "d2", stem |-> "a"], [dir |-> "d2", stem |-> "b"] >>

\* What processing the file does: "ok" yields an output file, "corrupt" fails
\* validate_file, "nodata" reads no row, "writerfail" makes create_output_file
\* return None.
FileKinds == {"ok", "corrupt", "nodata", "writerfail"}

\* Python None as the result of a file that yielded no output.
None == [out |-> "None"]

RECURSIVE SortedSeq(_)
SortedSeq(S) ==
    IF S = {} THEN << >>
    ELSE LET m == CHOOSE x \in S : \A y \in S : x <= y
         IN  << m >> \o SortedSeq(S \ {m})

\* scan_excel_files: the files of the directory tree in traversal order.
ScanResults(Kinds, bound) ==
    UNION { { [k \in 1..Cardinality(S) |->
                 [path |-> AllPaths[SortedSeq(S)[k]], kind |-> kinds[SortedSeq(S)[k]]]]
              : kinds \in [S -> Kinds] }
            : S \in { T \in SUBSET (1..Len(AllPaths)) : Cardinality(T) <= bound } }

\* os.path.basename + ExcelWriter._generate_output_filename: the output name
\* is made of the base name without extension and the date.
OutputPath(file) == [out |-> file.path.stem]

-----------------------------------------------------------------------------
(* ProcessorController.process_single_file / process_batch *)

\* process_single_file after its should_stop check: the output path, or None.
ProcessSingleFile(file) ==
    IF file.kind = "ok" THEN OutputPath(file) ELSE None

\* `if result: success_files.append(result)`
SuccessAfter(success, file, result) ==
    IF result # None THEN Append(success, result) ELSE success

FailedAfterMutant(failed, file, result) == failed
\* `else: failed_files.append(file_path)`
FailedAfter(failed, file, result) ==
    IF result = None THEN Append(failed, file.path) ELSE failed

BatchIdle ==
    /\ pc = "idle"
    /\ i = 0
    /\ is_processing = FALSE
    /\ should_stop = FALSE
    /\ success_files = << >>
    /\ failed_files = << >>
    /\ started = {}
    /\ completed = << >>
    /\ stop_requested = FALSE
    /\ started_after_stop = FALSE
    /\ progress_raised = FALSE
    /\ internal_error = FALSE

\* process_batch(): the caller starts the daemon thread and returns.
ProcessBatch ==
    /\ pc = "idle"
    /\ pc' = "spawned"
    /\ UNCHANGED << excel_files, i, is_processing, should_stop, success_files,
                    failed_files, started, completed, stop_requested,
                    started_after_stop, progress_raised, internal_error >>
    /\ UNCHANGED not_batch_vars

\* stop_processing(), called by the caller thread at any moment of the batch.
StopProcessing ==
    /\ pc \notin {"idle", "done"}
    /\ should_stop' = TRUE
    /\ stop_requested' = TRUE
    /\ UNCHANGED << excel_files, pc, i, is_processing, success_files,
                    failed_files, started, completed, started_after_stop,
                    progress_raised, internal_error >>
    /\ UNCHANGED not_batch_vars

\* _process, first statement: self.is_processing = True
WorkerSetProcessing ==
    /\ pc = "spawned"
    /\ is_processing' = TRUE
    /\ pc' = "reset"
    /\ UNCHANGED << excel_files, i, should_stop, success_files, failed_files,
                    started, completed, stop_requested, started_after_stop,
                    progress_raised, internal_error >>
    /\ UNCHANGED not_batch_vars

\* _process, second statement: self.should_stop = False
WorkerResetStop ==
    /\ pc = "reset"
    /\ should_stop' = FALSE
    /\ pc' = "scan"
    /\ UNCHANGED << excel_files, i, is_processing, success_files, failed_files,
                    started, completed, stop_requested, started_after_stop,
                    progress_raised, internal_error >>
    /\ UNCHANGED not_batch_vars

\* scan_excel_files; with no file complete_callback([], []) is called outside
\* any inner try, so a raising callback reaches the outer except.
ScanFiles ==
    /\ pc = "scan"
    /\ IF excel_files = << >>
       THEN \E raises \in BOOLEAN :
               /\ completed' = Append(completed, [success |-> << >>, failed |-> << >>])
               /\ pc' = IF raises THEN "except" ELSE "finally"
       ELSE /\ pc' = "mkdir"
            /\ UNCHANGED completed
    /\ UNCHANGED << excel_files, i, is_processing, should_stop, success_files,
                    failed_files, started, stop_requested, started_after_stop,
                    progress_raised, internal_error >>
    /\ UNCHANGED not_batch_vars

\* os.makedirs(output_dir, exist_ok=True): raises when the directory cannot be made.
MakeDirs ==
    /\ pc = "mkdir"
    /\ \E ok \in BOOLEAN :
          pc' = IF ok THEN "loop" ELSE "except"
    /\ i' = 1
    /\ UNCHANGED << excel_files, is_processing, should_stop, success_files,
                    failed_files, started, completed, stop_requested,
                    started_after_stop, progress_raised, internal_error >>
    /\ UNCHANGED not_batch_vars

\* Loop head: the end of the list, or `if self.should_stop: break`.
LoopCheck ==
    /\ pc = "loop"
    /\ pc' = IF i > Len(excel_files) \/ should_stop THEN "complete" ELSE "progress"
    /\ UNCHANGED << excel_files, i, is_processing, should_stop, success_files,
                    failed_files, started, completed, stop_requested,
                    started_after_stop, progress_raised, internal_error >>
    /\ UNCHANGED not_batch_vars

\* progress_callback(i + 1, total, name) inside try/except: a raise is logged.
ProgressCallback ==
    /\ pc = "progress"
    /\ \E raises \in BOOLEAN :
          progress_raised' = (progress_raised \/ raises)
    /\ pc' = "single"
    /\ UNCHANGED << excel_files, i, is_processing, should_stop, success_files,
                    failed_files, started, completed, stop_requested,
                    started_after_stop, internal_error >>
    /\ UNCHANGED not_batch_vars

\* process_single_file, `if self.should_stop: return None`; otherwise the file
\* starts being processed.
SingleCheck ==
    /\ pc = "single"
    /\ IF should_stop
       THEN /\ failed_files' = FailedAfter(failed_files, excel_files[i], None)
            /\ i' = i + 1
            /\ pc' = "loop"
            /\ UNCHANGED << started, started_after_stop >>
       ELSE /\ started' = started \cup {i}
            /\ started_after_stop' = (started_after_stop \/ stop_requested)
            /\ pc' = "work"
            /\ UNCHANGED << failed_files, i >>
    /\ UNCHANGED << excel_files, is_processing, should_stop, success_files,
                    completed, stop_requested, progress_raised, internal_error >>
    /\ UNCHANGED not_batch_vars

\* process_single_file reads and writes; the loop records the result.
SingleWork ==
    /\ pc = "work"
    /\ LET result == ProcessSingleFile(excel_files[i])
       IN  /\ success_files' = SuccessAfter(success_files, excel_files[i], result)
           /\ failed_files' = FailedAfter(failed_files, excel_files[i], result)
    /\ i' = i + 1
    /\ pc' = "loop"
    /\ UNCHANGED << excel_files, is_processing, should_stop, started, completed,
                    stop_requested, started_after_stop, progress_raised,
                    internal_error >>
    /\ UNCHANGED not_batch_vars

\* complete_callback(success_files, failed_files) inside try/except.
CompleteCallback ==
    /\ pc = "complete"
    /\ completed' = Append(completed, [success |-> success_files, failed |-> failed_files])
    /\ pc' = "finally"
    /\ UNCHANGED << excel_files, i, is_processing, should_stop, success_files,
                    failed_files, started, stop_requested, started_after_stop,
                    progress_raised, internal_error >>
    /\ UNCHANGED not_batch_vars

\* except Exception: complete_callback([], excel_files) inside try/except.
ExceptHandler ==
    /\ pc = "except"
    /\ completed' = Append(completed,
                           [success |-> << >>,
                            failed |-> [k \in 1..Len(excel_files) |-> excel_files[k].path]])
    /\ internal_error' = TRUE
    /\ pc' = "finally"
    /\ UNCHANGED << excel_files, i, is_processing, should_stop, success_files,
                    failed_files, started, stop_requested, started_after_stop,
                    progress_raised >>
    /\ UNCHANGED not_batch_vars

\* finally: self.is_processing = False
Finally ==
    /\ pc = "finally"
    /\ is_processing' = FALSE
    /\ pc' = "done"
    /\ UNCHANGED << excel_files, i, should_stop, success_files, failed_files,
                    started, completed, stop_requested, started_after_stop,
                    progress_raised, internal_error >>
    /\ UNCHANGED not_batch_vars

BatchStep ==
    \/ ProcessBatch
    \/ StopProcessing
    \/ WorkerSetProcessing
    \/ WorkerResetStop
    \/ ScanFiles
    \/ MakeDirs
    \/ LoopCheck
    \/ ProgressCallback
    \/ SingleCheck
    \/ SingleWork
    \/ CompleteCallback
    \/ ExceptHandler
    \/ Finally

-----------------------------------------------------------------------------


(***************************************************************************)
(* C1: In a batch that is not cancelled every complete_callback invocation *)
(* receives a success list and a failed list whose lengths sum to the      *)
(* number of scanned files; unless the output directory could not be made, *)
(* every file was processed, the failed list holds exactly the files whose *)
(* processing failed and the success list one output per other file.       *)
(***************************************************************************)
FailingPaths ==
    LET bad == SelectSeq(excel_files, LAMBDA f : f.kind # "ok")
    IN  [k \in 1..Len(bad) |-> bad[k].path]

SucceedingOutputs ==
    LET good == SelectSeq(excel_files, LAMBDA f : f.kind = "ok")
    IN  [k \in 1..Len(good) |-> OutputPath(good[k])]

C1_PartialFailure ==
    (pc = "done" /\ ~stop_requested) =>
        /\ completed # << >>
        /\ \A k \in DOMAIN completed :
              Len(completed[k].success) + Len(completed[k].failed) = Len(excel_files)
        /\ ~internal_error =>
              /\ started = 1..Len(excel_files)
              /\ completed = << [success |-> SucceedingOutputs, failed |-> FailingPaths] >>

\* Three files, the second corrupt: two succeeded, the failed entry is file 2.
C1_Witness ==
    /\ pc = "done" /\ ~stop_requested /\ ~internal_error
    /\ Len(excel_files) = 3
    /\ excel_files[1].kind = "ok" /\ excel_files[2].kind = "corrupt"
    /\ excel_files[3].kind = "ok"
    /\ Len(completed) = 1
    /\ Len(completed[1].success) = 2
    /\ completed[1].failed = << excel_files[2].path >>

(***************************************************************************)
(* C2: once stop_processing() has been called after process_batch(), no    *)
(* further file starts being processed, in every interleaving of the       *)
(* caller and the worker thread.                                           *)
(***************************************************************************)
C2_NoStartAfterStop == ~started_after_stop

-----------------------------------------------------------------------------
(* TeacherProcessorController.process_teacher_batch *)

TeacherKinds == {"ok", "nodata"}

\* max_workers: default of process_teacher_batch
max_workers == 2

\* role_files of create_teacher_grouped_file, in insertion order.  Every row is
\* put into one group of each role type by _group_data_by_role, so a file with
\* data yields all four role files.
RoleTypes == << "service_director", "service_teacher", "operation_teacher", "store" >>

\* _generate_role_filename: "<stem>_<role>-...-<date>.xlsx" in output_dir.
RoleOutputPath(file, r) == [stem |-> file.path.stem, role |-> RoleTypes[r]]

Tasks == DOMAIN task

Running == { k \in Tasks : task[k].st \in {"entered", "reading", "grouped", "saving"} }

TeacherIdle ==
    /\ t_pc = "idle"
    /\ t_is_processing = FALSE
    /\ t_should_stop = FALSE
    /\ task = << >>
    /\ yielded = {}
    /\ t_cur = 0
    /\ t_success = << >>
    /\ t_failed = << >>
    /\ t_completed = << >>
    /\ t_stop_requested = FALSE
    /\ t_started_after_stop = FALSE
    /\ t_progress_raised = FALSE
    /\ t_internal_error = FALSE

\* process_teacher_batch(): the caller starts the daemon thread and returns.
ProcessTeacherBatch ==
    /\ t_pc = "idle"
    /\ t_pc' = "spawned"
    /\ UNCHANGED << t_files, t_is_processing, t_should_stop, task, yielded, t_cur,
                    t_success, t_failed, t_completed, t_stop_requested,
                    t_started_after_stop, t_progress_raised, t_internal_error >>
    /\ UNCHANGED not_teacher_vars

\* stop_processing() of the teacher controller.
TeacherStopProcessing ==
    /\ t_pc \notin {"idle", "done"}
    /\ t_should_stop' = TRUE
    /\ t_stop_requested' = TRUE
    /\ UNCHANGED << t_files, t_pc, t_is_processing, task, yielded, t_cur,
                    t_success, t_failed, t_completed,
                    t_started_after_stop, t_progress_raised, t_internal_error >>
    /\ UNCHANGED not_teacher_vars

\* _process: self.is_processing = True
TeacherSetProcessing ==
    /\ t_pc = "spawned"
    /\ t_is_processing' = TRUE
    /\ t_pc' = "reset"
    /\ UNCHANGED << t_files, t_should_stop, task, yielded, t_cur,
                    t_success, t_failed, t_completed, t_stop_requested,
                    t_started_after_stop, t_progress_raised, t_internal_error >>
    /\ UNCHANGED not_teacher_vars

\* _process: self.should_stop = False
TeacherResetStop ==
    /\ t_pc = "reset"
    /\ t_should_stop' = FALSE
    /\ t_pc' = "scan"
    /\ UNCHANGED << t_files, t_is_processing, task, yielded, t_cur,
                    t_success, t_failed, t_completed, t_stop_requested,
                    t_started_after_stop, t_progress_raised, t_internal_error >>
    /\ UNCHANGED not_teacher_vars

\* scan_excel_files; no file: complete_callback([], []) and return.
TeacherScanFiles ==
    /\ t_pc = "scan"
    /\ IF t_files = << >>
       THEN \E raises \in BOOLEAN :
               /\ t_completed' = Append(t_completed, [success |-> << >>, failed |-> << >>])
               /\ t_pc' = IF raises THEN "except" ELSE "finally"
       ELSE /\ t_pc' = "mkdir"
            /\ UNCHANGED t_completed
    /\ UNCHANGED << t_files, t_is_processing, t_should_stop, task, yielded, t_cur,
                    t_success, t_failed, t_stop_requested,
                    t_started_after_stop, t_progress_raised, t_internal_error >>
    /\ UNCHANGED not_teacher_vars

\* os.makedirs(output_dir, exist_ok=True)
TeacherMakeDirs ==
    /\ t_pc = "mkdir"
    /\ \E ok \in BOOLEAN :
          t_pc' = IF ok THEN "submit" ELSE "except"
    /\ UNCHANGED << t_files, t_is_processing, t_should_stop, task, yielded, t_cur,
                    t_success, t_failed, t_completed, t_stop_requested,
                    t_started_after_stop, t_progress_raised, t_internal_error >>
    /\ UNCHANGED not_teacher_vars

\* executor.submit(self.process_single_teacher_file, file_path, output_dir)
\* for every scanned file.
SubmitAll ==
    /\ t_pc = "submit"
    /\ task' = [k \in 1..Len(t_files) |-> [st |-> "queued", role |-> 0, result |-> None]]
    /\ t_pc' = "collect"
    /\ UNCHANGED << t_files, t_is_processing, t_should_stop, yielded, t_cur,
                    t_success, t_failed, t_completed, t_stop_requested,
                    t_started_after_stop, t_progress_raised, t_internal_error >>
    /\ UNCHANGED not_teacher_vars

\* A pool thread takes the oldest queued task when fewer than max_workers run.
TaskStart(k) ==
    /\ k \in Tasks
    /\ task[k].st = "queued"
    /\ \A j \in Tasks : j < k => task[j].st # "queued"
    /\ Cardinality(Running) < max_workers
    /\ task' = [task EXCEPT ![k].st = "entered"]
    /\ UNCHANGED << t_files, t_pc, t_is_processing, t_should_stop, yielded, t_cur,
                    t_success, t_failed, t_completed, t_stop_requested,
                    t_started_after_stop, t_progress_raised, t_internal_error >>
    /\ UNCHANGED not_teacher_vars

\* process_single_teacher_file: `if self.should_stop: return None`
TaskCheck(k) ==
    /\ k \in Tasks
    /\ task[k].st = "entered"
    /\ IF t_should_stop
       THEN /\ task' = [task EXCEPT ![k].st = "finished"]
            /\ UNCHANGED t_started_after_stop
       ELSE /\ task' = [task EXCEPT ![k].st = "reading"]
            /\ t_started_after_stop' = (t_started_after_stop \/ t_stop_requested)
    /\ UNCHANGED << t_files, t_pc, t_is_processing, t_should_stop, yielded, t_cur,
                    t_success, t_failed, t_completed, t_stop_requested,
                    t_progress_raised, t_internal_error >>
    /\ UNCHANGED not_teacher_vars

\* read_teacher_data; `if not data_list: return None`
TaskRead(k) ==
    /\ k \in Tasks
    /\ task[k].st = "reading"
    /\ IF t_files[k].kind = "ok"
       THEN task' = [task EXCEPT ![k].st = "grouped", ![k].role = 1]
       ELSE task' = [task EXCEPT ![k].st = "finished"]
    /\ UNCHANGED << t_files, t_pc, t_is_processing, t_should_stop, yielded, t_cur,
                    t_success, t_failed, t_completed, t_stop_requested,
                    t_started_after_stop, t_progress_raised, t_internal_error >>
    /\ UNCHANGED not_teacher_vars

\* create_teacher_grouped_file: workbook.save(role_output_path) begins ...
TaskSaveBegin(k) ==
    /\ k \in Tasks
    /\ task[k].st = "grouped"
    /\ task' = [task EXCEPT ![k].st = "saving"]
    /\ UNCHANGED << t_files, t_pc, t_is_processing, t_should_stop, yielded, t_cur,
                    t_success, t_failed, t_completed, t_stop_requested,
                    t_started_after_stop, t_progress_raised, t_internal_error >>
    /\ UNCHANGED not_teacher_vars

\* ... and ends; after the last role type the task returns output_dir.
TaskSaveEnd(k) ==
    /\ k \in Tasks
    /\ task[k].st = "saving"
    /\ IF task[k].role < Len(RoleTypes)
       THEN task' = [task EXCEPT ![k].st = "grouped", ![k].role = @ + 1]
       ELSE task' = [task EXCEPT ![k].st = "finished",
                                 ![k].result = [out |-> "output_dir"]]
    /\ UNCHANGED << t_files, t_pc, t_is_processing, t_should_stop, yielded, t_cur,
                    t_success, t_failed, t_completed, t_stop_requested,
                    t_started_after_stop, t_progress_raised, t_internal_error >>
    /\ UNCHANGED not_teacher_vars

\* `for i, future in enumerate(as_completed(future_to_file))`: the next
\* completed future, then `if self.should_stop: break`.
CollectNext ==
    /\ t_pc = "collect"
    /\ IF yielded = Tasks
       THEN /\ t_pc' = "shutdown_ok"
            /\ UNCHANGED << yielded, t_cur >>
       ELSE \E k \in Tasks \ yielded :
               /\ task[k].st = "finished"
               /\ yielded' = yielded \cup {k}
               /\ t_cur' = k
               /\ t_pc' = IF t_should_stop THEN "shutdown_ok" ELSE "progress"
    /\ UNCHANGED << t_files, t_is_processing, t_should_stop, task,
                    t_success, t_failed, t_completed, t_stop_requested,
                    t_started_after_stop, t_progress_raised, t_internal_error >>
    /\ UNCHANGED not_teacher_vars

\* progress_callback(i + 1, total_files, name): not inside any inner try, so a
\* raise leaves the loop and the with-block for the outer except.
TeacherProgressCallback ==
    /\ t_pc = "progress"
    /\ \E raises \in BOOLEAN :
          /\ t_progress_raised' = (t_progress_raised \/ raises)
          /\ t_pc' = IF raises THEN "shutdown_err" ELSE "result"
    /\ UNCHANGED << t_files, t_is_processing, t_should_stop, task, yielded, t_cur,
                    t_success, t_failed, t_completed, t_stop_requested,
                    t_started_after_stop, t_internal_error >>
    /\ UNCHANGED not_teacher_vars

\* result = future.result(); success_files / failed_files
CollectResult ==
    /\ t_pc = "result"
    /\ t_success' = SuccessAfter(t_success, t_files[t_cur], task[t_cur].result)
    /\ t_failed' = FailedAfter(t_failed, t_files[t_cur], task[t_cur].result)
    /\ t_pc' = "collect"
    /\ UNCHANGED << t_files, t_is_processing, t_should_stop, task, yielded, t_cur,
                    t_completed, t_stop_requested,
                    t_started_after_stop, t_progress_raised, t_internal_error >>
    /\ UNCHANGED not_teacher_vars

\* Leaving `with ThreadPoolExecutor(...)`: shutdown(wait=True) waits for every
\* submitted task.
ExecutorShutdown ==
    /\ t_pc \in {"shutdown_ok", "shutdown_err"}
    /\ \A k \in Tasks : task[k].st = "finished"
    /\ t_pc' = IF t_pc = "shutdown_ok" THEN "complete" ELSE "except"
    /\ UNCHANGED << t_files, t_is_processing, t_should_stop, task, yielded, t_cur,
                    t_success, t_failed, t_completed, t_stop_requested,
                    t_started_after_stop, t_progress_raised, t_internal_error >>
    /\ UNCHANGED not_teacher_vars

\* complete_callback(success_files, failed_files), not inside any inner try.
TeacherCompleteCallback ==
    /\ t_pc = "complete"
    /\ t_completed' = Append(t_completed, [success |-> t_success, failed |-> t_failed])
    /\ \E raises \in BOOLEAN :
          t_pc' = IF raises THEN "except" ELSE "finally"
    /\ UNCHANGED << t_files, t_is_processing, t_should_stop, task, yielded, t_cur,
                    t_success, t_failed, t_stop_requested,
                    t_started_after_stop, t_progress_raised, t_internal_error >>
    /\ UNCHANGED not_teacher_vars

\* except Exception: complete_callback([], excel_files)
TeacherExceptHandler ==
    /\ t_pc = "except"
    /\ t_completed' = Append(t_completed,
                             [success |-> << >>,
                              failed |-> [k \in 1..Len(t_files) |-> t_files[k].path]])
    /\ t_internal_error' = TRUE
    /\ t_pc' = "finally"
    /\ UNCHANGED << t_files, t_is_processing, t_should_stop, task, yielded, t_cur,
                    t_success, t_failed, t_stop_requested,
                    t_started_after_stop, t_progress_raised >>
    /\ UNCHANGED not_teacher_vars

\* finally: self.is_processing = False
TeacherFinally ==
    /\ t_pc = "finally"
    /\ t_is_processing' = FALSE
    /\ t_pc' = "done"
    /\ UNCHANGED << t_files, t_should_stop, task, yielded, t_cur,
                    t_success, t_failed, t_completed, t_stop_requested,
                    t_started_after_stop, t_progress_raised, t_internal_error >>
    /\ UNCHANGED not_teacher_vars

TeacherStep ==
    \/ ProcessTeacherBatch
    \/ TeacherStopProcessing
    \/ TeacherSetProcessing
    \/ TeacherResetStop
    \/ TeacherScanFiles
    \/ TeacherMakeDirs
    \/ SubmitAll
    \/ \E k \in 1..Len(t_files) : TaskStart(k)
    \/ \E k \in 1..Len(t_files) : TaskCheck(k)
    \/ \E k \in 1..Len(t_files) : TaskRead(k)
    \/ \E k \in 1..Len(t_files) : TaskSaveBegin(k)
    \/ \E k \in 1..Len(t_files) : TaskSaveEnd(k)
    \/ CollectNext
    \/ TeacherProgressCallback
    \/ CollectResult
    \/ ExecutorShutdown
    \/ TeacherCompleteCallback
    \/ TeacherExceptHandler
    \/ TeacherFinally

(***************************************************************************)
(* Termination of a batch.  The thread started by process_batch or         *)
(* process_teacher_batch and the tasks of the pool are scheduled by the    *)
(* interpreter: a step of theirs that stays possible is eventually taken.  *)
(* The calls of the caller (process_batch, stop_processing) are under no   *)
(* such obligation.                                                        *)
(***************************************************************************)
BatchWorker ==
    \/ WorkerSetProcessing
    \/ WorkerResetStop
    \/ ScanFiles
    \/ MakeDirs
    \/ LoopCheck
    \/ ProgressCallback
    \/ SingleCheck
    \/ SingleWork
    \/ CompleteCallback
    \/ ExceptHandler
    \/ Finally

TeacherWorker ==
    \/ TeacherSetProcessing
    \/ TeacherResetStop
    \/ TeacherScanFiles
    \/ TeacherMakeDirs
    \/ SubmitAll
    \/ \E k \in 1..Len(t_files) : TaskStart(k)
    \/ \E k \in 1..Len(t_files) : TaskCheck(k)
    \/ \E k \in 1..Len(t_files) : TaskRead(k)
    \/ \E k \in 1..Len(t_files) : TaskSaveBegin(k)
    \/ \E k \in 1..Len(t_files) : TaskSaveEnd(k)
    \/ CollectNext
    \/ TeacherProgressCallback
    \/ CollectResult
    \/ ExecutorShutdown
    \/ TeacherCompleteCallback
    \/ TeacherExceptHandler
    \/ TeacherFinally

\* The thread of the batch has ended.
BatchTerminated == pc = "done"
TeacherTerminated == t_pc = "done"

(***************************************************************************)
(* C27: every batch started by process_batch or process_teacher_batch      *)
(* eventually terminates, and when it has terminated is_processing is      *)
(* False and complete_callback has been invoked exactly once for it, on    *)
(* every path (no files, normal completion, cancellation, internal error,  *)
(* a progress or completion callback that raises).                         *)
(***************************************************************************)
C27_TerminatesWithOneCompletion ==
    /\ [](pc = "spawned" => <>BatchTerminated)
    /\ [](t_pc = "spawned" => <>TeacherTerminated)
    /\ [](BatchTerminated => (~is_processing /\ Len(completed) = 1))
    /\ [](TeacherTerminated => (~t_is_processing /\ Len(t_completed) = 1))

\* The parts of C27 that hold: termination, and is_processing False and at
\* least one invocation of complete_callback at the end.
C27_Terminates ==
    /\ [](pc = "spawned" => <>BatchTerminated)
    /\ [](t_pc = "spawned" => <>TeacherTerminated)
    /\ [](BatchTerminated => (~is_processing /\ Len(completed) \in {1, 2}))
    /\ [](TeacherTerminated => (~t_is_processing /\ Len(t_completed) \in {1, 2}))

(***************************************************************************)
(* C3: two file tasks that run concurrently never write to the same output *)
(* file path.                                                              *)
(***************************************************************************)
C3_NoConcurrentSamePath ==
    \A j, k \in Tasks :
        (j # k /\ task[j].st = "saving" /\ task[k].st = "saving") =>
            RoleOutputPath(t_files[j], task[j].role) # RoleOutputPath(t_files[k], task[k].role)

(***************************************************************************)
(* C5: a progress observer that raises never aborts the batch and never    *)
(* changes an item's outcome: at the end of a batch that was not cancelled *)
(* and whose output directory exists, the completion reports each file     *)
(* once, as succeeded or failed according to its own processing result.    *)
(***************************************************************************)
TeacherSucceeded == { k \in Tasks : task[k].result # None }

C5_ObserverFailureIsolated ==
    (t_pc = "done" /\ t_progress_raised /\ ~t_stop_requested) =>
        /\ Len(t_completed[1].success) = Cardinality(TeacherSucceeded)
        /\ Len(t_completed[1].failed) = Len(t_files) - Cardinality(TeacherSucceeded)

-----------------------------------------------------------------------------
(* ExcelWriter.create_output_file *)

\* TARGET_CONFIG['fill_positions'], in insertion order.
fill_positions == << "product_name", "unit", "quantity", "amount", "code", "tax_rate" >>

\* The fields the reader takes from the source (SOURCE_CONFIG['fields']); the
\* others are filled from TARGET_CONFIG['default_values'].
SourceFields == {"product_name", "unit", "quantity", "amount"}

\* Source text that openpyxl refuses as a cell value (illegal characters) can
\* only come from the text columns.
TextFields == {"product_name", "unit"}

DataLists(bound) ==
    UNION { [1..n -> SUBSET TextFields] : n \in 0..bound }

\* _safe_write_cell: the cell (or its merge anchor) gets the value and True is
\* returned; any exception is logged and False is returned.  The caller
\* _write_data_safe ignores the return value.
SafeWriteCell(book, row, field, bad) ==
    IF field \in bad THEN book ELSE book \cup {<< row, field >>}

WriterIdle ==
    /\ w_pc = "start"
    /\ w_path = "none"
    /\ w_file = "absent"
    /\ w_book = {}
    /\ w_row = 0
    /\ w_fld = 0
    /\ w_result = "pending"

\* validate_template(), then `if not data_list: return None`
ValidateTemplate ==
    /\ w_pc = "start"
    /\ \E valid \in BOOLEAN :
          IF valid /\ w_data # << >>
          THEN /\ w_pc' = "ensure"
               /\ UNCHANGED w_result
          ELSE /\ w_pc' = "returned"
               /\ w_result' = "None"
    /\ UNCHANGED << w_data, w_path, w_file, w_book, w_row, w_fld >>
    /\ UNCHANGED not_writer_vars

\* _ensure_output_directory(output_dir)
EnsureOutputDirectory ==
    /\ w_pc = "ensure"
    /\ \E usable \in BOOLEAN :
          IF usable
          THEN /\ w_pc' = "path"
               /\ UNCHANGED w_result
          ELSE /\ w_pc' = "returned"
               /\ w_result' = "None"
    /\ UNCHANGED << w_data, w_path, w_file, w_book, w_row, w_fld >>
    /\ UNCHANGED not_writer_vars

\* _generate_output_filename; an existing file is removed, or, when it cannot
\* be removed, the name gets a time suffix.
ChooseOutputPath ==
    /\ w_pc = "path"
    /\ \E exists \in BOOLEAN, removable \in BOOLEAN :
          w_path' = IF exists /\ ~removable THEN "alt" ELSE "primary"
    /\ w_pc' = "copy"
    /\ UNCHANGED << w_data, w_file, w_book, w_row, w_fld, w_result >>
    /\ UNCHANGED not_writer_vars

\* shutil.copy2(self.template_path, output_path)
CopyTemplate ==
    /\ w_pc = "copy"
    /\ \E copied \in BOOLEAN :
          IF copied
          THEN /\ w_file' = "template"
               /\ w_pc' = "load"
               /\ UNCHANGED w_result
          ELSE /\ w_pc' = "returned"
               /\ w_result' = "None"
               /\ UNCHANGED w_file
    /\ UNCHANGED << w_data, w_path, w_book, w_row, w_fld >>
    /\ UNCHANGED not_writer_vars

\* workbook = load_workbook(output_path); _write_headers_safe writes nothing
\* (TARGET_CONFIG['headers'] is empty).
LoadWorkbook ==
    /\ w_pc = "load"
    /\ \E loaded \in BOOLEAN :
          IF loaded
          THEN /\ w_pc' = "write"
               /\ w_row' = 1
               /\ w_fld' = 1
               /\ UNCHANGED w_result
          ELSE /\ w_pc' = "returned"
               /\ w_result' = "None"
               /\ UNCHANGED << w_row, w_fld >>
    /\ UNCHANGED << w_data, w_path, w_file, w_book >>
    /\ UNCHANGED not_writer_vars

\* _write_data_safe: one cell of the loops over data_list and fill_positions.
WriteCell ==
    /\ w_pc = "write"
    /\ w_book' = SafeWriteCell(w_book, w_row, fill_positions[w_fld], w_data[w_row])
    /\ IF w_fld < Len(fill_positions)
       THEN /\ w_fld' = w_fld + 1
            /\ UNCHANGED << w_row, w_pc >>
       ELSE IF w_row < Len(w_data)
            THEN /\ w_row' = w_row + 1
                 /\ w_fld' = 1
                 /\ UNCHANGED w_pc
            ELSE /\ w_pc' = "save"
                 /\ UNCHANGED << w_row, w_fld >>
    /\ UNCHANGED << w_data, w_path, w_file, w_result >>
    /\ UNCHANGED not_writer_vars

\* workbook.save(output_path); add_total_row is False.  A failing save leaves
\* the copied template or a truncated archive behind.
SaveWorkbook ==
    /\ w_pc = "save"
    /\ \E outcome \in {"saved", "template", "partial"} :
          /\ w_file' = outcome
          /\ w_result' = IF outcome = "saved" THEN "path" ELSE "None"
    /\ w_pc' = "returned"
    /\ UNCHANGED << w_data, w_path, w_book, w_row, w_fld >>
    /\ UNCHANGED not_writer_vars

WriterStep ==
    \/ ValidateTemplate
    \/ EnsureOutputDirectory
    \/ ChooseOutputPath
    \/ CopyTemplate
    \/ LoadWorkbook
    \/ WriteCell
    \/ SaveWorkbook

(***************************************************************************)
(* C4: after create_output_file a file exists at the output path only if   *)
(* every data cell of every row was written; when a step after the         *)
(* template was placed fails, or a cell write fails, no file remains and   *)
(* the item is not reported as a success.                                  *)
(***************************************************************************)
AllCellsWritten ==
    \A r \in 1..Len(w_data) : \A f \in 1..Len(fill_positions) :
        << r, fill_positions[f] >> \in w_book

C4_NoPartialOutput ==
    w_pc = "returned" =>
        /\ w_file # "absent" => (w_file = "saved" /\ AllCellsWritten)
        /\ w_result = "path" => AllCellsWritten

-----------------------------------------------------------------------------
(* Region scanning and record extraction: ExcelReader._read_xlsx_data,     *)
(* ExcelReader._read_xls_data and the TeacherExcelReader copies of both     *)

\* A cell value: None, a str (sequence of characters), an int, or a float
\* w.f with one decimal digit.
Cell(t, s, n, f) == [t |-> t, s |-> s, n |-> n, f |-> f]
NoneCell == Cell("none", << >>, 0, 0)
StrCell(s) == Cell("str", s, 0, 0)
IntCell(n) == Cell("int", << >>, n, 0)
FloatCell(w, f) == Cell("float", << >>, w, f)

Whitespace == {" "}

RECURSIVE LStrip(_)
LStrip(s) ==
    IF s # << >> /\ Head(s) \in Whitespace THEN LStrip(Tail(s)) ELSE s

RECURSIVE RStrip(_)
RStrip(s) ==
    IF s # << >> /\ s[Len(s)] \in Whitespace THEN RStrip(SubSeq(s, 1, Len(s) - 1)) ELSE s

\* str.strip()
Strip(s) == RStrip(LStrip(s))

Digit(n) == << "0", "1", "2", "3", "4", "5", "6", "7", "8", "9" >>[n + 1]

\* str(value): "5" for the int 5, "5.0" for the float 5.0
PyStr(c) ==
    CASE c.t = "str" -> c.s
      [] c.t = "int" -> << Digit(c.n) >>
      [] c.t = "float" -> << Digit(c.n), ".", Digit(c.f) >>
      [] OTHER -> << "N", "o", "n", "e" >>

\* bool(value)
Truthy(c) ==
    CASE c.t = "str" -> c.s # << >>
      [] c.t = "int" -> c.n # 0
      [] c.t = "float" -> c.n # 0 \/ c.f # 0
      [] OTHER -> FALSE

\* SOURCE_CONFIG['end_markers'] / TEACHER_SOURCE_CONFIG['end_markers'];
\* "H","J" stand for the two characters of the marker word, with and without
\* inner blanks.
end_markers == { << "H", "J" >>, << "H", " ", " ", "J" >> }

\* SOURCE_CONFIG['fields']: the required column and one of the other columns.
fields == {"product_name", "amount"}

\* What a cell of a sheet can hold: openpyxl gives None, str, int or float;
\* xlrd gives '' for an empty cell, str, or float for every number.  None in
\* an xls row stands for a column at or beyond worksheet.ncols.
CellValues(fmt, field) ==
    IF fmt = "xlsx"
    THEN IF field = "product_name"
         THEN { NoneCell, StrCell(<< " " >>), StrCell(<< "x" >>),
                StrCell(<< " ", "H", "J", " " >>), IntCell(0) }
         ELSE { NoneCell, StrCell(<< "H", "J" >>), FloatCell(2, 5) }
    ELSE IF field = "product_name"
         THEN { StrCell(<< >>), StrCell(<< " " >>), StrCell(<< "x" >>),
                StrCell(<< " ", "H", "J", " " >>), FloatCell(0, 0) }
         ELSE { StrCell(<< >>), StrCell(<< "H", "J" >>), FloatCell(5, 0) }

Rows(fmt) == { [f \in fields |-> IF f = "product_name" THEN a ELSE b] :
               a \in CellValues(fmt, "product_name"), b \in CellValues(fmt, "amount") }

Grids(fmt, bound) == UNION { [1..n -> Rows(fmt)] : n \in 0..bound }

Configs ==
    [ start_row : {1, 2}, max_rows : {1, 2},
      required_fields : { {}, {"product_name"} }, skip_empty_rows : BOOLEAN ]

\* `cell_str = str(cell_value).strip(); if cell_str in end_markers`, for the
\* cell under every configured field column.
IsEndMarkerRow(row) ==
    \E f \in fields : row[f].t # "none" /\ Strip(PyStr(row[f])) \in end_markers

\* The cleaned cell value stored in row_data.
CleanCell(fmt, c) ==
    IF fmt = "xlsx"
    THEN IF c.t = "str" THEN StrCell(Strip(c.s)) ELSE c
    ELSE IF c.t = "float" /\ c.f = 0 THEN IntCell(c.n)
         ELSE IF c.t = "str" THEN StrCell(Strip(c.s)) ELSE c

\* Whether the cell sets has_data.  In the xls path the first branch of the
\* if/elif chain (whole-number float -> int) does not set it.
SetsHasData(fmt, c) ==
    IF fmt = "xlsx"
    THEN c.t # "none" /\ (c.t = "str" => Strip(c.s) # << >>)
    ELSE IF c.t = "float" /\ c.f = 0 THEN FALSE
         ELSE IF c.t = "str" THEN Strip(c.s) # << >>
         ELSE c.t # "none"

RowData(fmt, row) == [f \in fields |-> CleanCell(fmt, row[f])]

HasData(fmt, row) == \E f \in fields : SetsHasData(fmt, row[f])

\* any(row_data.get(field) is not None and str(row_data.get(field)).strip() != '' ...)
RequiredHasData(cfg, row_data) ==
    \E f \in cfg.required_fields :
        row_data[f].t # "none" /\ Strip(PyStr(row_data[f])) # << >>

\* The `continue` branches of the empty-row check.
SkipRow(fmt, cfg, row) ==
    /\ cfg.skip_empty_rows
    /\ IF cfg.required_fields # {}
       THEN ~RequiredHasData(cfg, RowData(fmt, row))
       ELSE ~HasData(fmt, row)

\* `if has_data or (required_fields and any(row_data.get(field) for field in required_fields))`
AppendsRow(fmt, cfg, row) ==
    \/ HasData(fmt, row)
    \/ /\ cfg.required_fields # {}
       /\ \E f \in cfg.required_fields : Truthy(RowData(fmt, row)[f])

LoopConditionMutant(fmt, cfg, grid, cur) ==
    IF fmt = "xlsx" THEN cur <= Len(grid) ELSE cur < Len(grid)
\* `while current_row <= min(worksheet.max_row, start_row + max_rows - 1)` and,
\* for xls with 0-based rows, `while current_row < min(worksheet.nrows, start_row + max_rows)`
LoopCondition(fmt, cfg, grid, cur) ==
    LET Min(a, b) == IF a <= b THEN a ELSE b
    IN  IF fmt = "xlsx"
        THEN cur <= Min(Len(grid), cfg.start_row + cfg.max_rows - 1)
        ELSE cur < Min(Len(grid), (cfg.start_row - 1) + cfg.max_rows)

\* The 1-based sheet row of current_row (`current_row + 1` in the xls path).
SheetRow(fmt, cur) == IF fmt = "xlsx" THEN cur ELSE cur + 1

ReaderIdle ==
    /\ r_fmt = "xlsx"
    /\ r_cfg = [start_row |-> 1, max_rows |-> 1, required_fields |-> {},
                skip_empty_rows |-> TRUE]
    /\ r_grid = << >>
    /\ current_row = 0
    /\ data_list = << >>
    /\ r_examined = {}
    /\ r_pc = "done"

\* One iteration of the while loop, or its end.
ReadRow ==
    /\ r_pc = "loop"
    /\ IF ~LoopCondition(r_fmt, r_cfg, r_grid, current_row)
       THEN /\ r_pc' = "done"
            /\ UNCHANGED << current_row, data_list, r_examined >>
       ELSE LET n == SheetRow(r_fmt, current_row)
                row == r_grid[n]
            IN  /\ r_examined' = r_examined \cup {n}
                /\ IF IsEndMarkerRow(row)
                   THEN /\ r_pc' = "done"
                        /\ UNCHANGED << current_row, data_list >>
                   ELSE /\ data_list' =
                              IF ~SkipRow(r_fmt, r_cfg, row) /\ AppendsRow(r_fmt, r_cfg, row)
                              THEN Append(data_list,
                                          [row_data |-> RowData(r_fmt, row), _source_row |-> n])
                              ELSE data_list
                        /\ current_row' = current_row + 1
                        /\ UNCHANGED r_pc
    /\ UNCHANGED << r_fmt, r_cfg, r_grid >>
    /\ UNCHANGED not_reader_vars

ReaderStep == ReadRow

EmittedRows == { data_list[k]._source_row : k \in DOMAIN data_list }

\* The rows of the sheet, from start_row on, that hold an end marker.
MarkerRows ==
    { n \in r_cfg.start_row..Len(r_grid) : IsEndMarkerRow(r_grid[n]) }

(***************************************************************************)
(* C6: the reader never emits a row at or after the first scanned row that *)
(* holds an end marker in a configured field column, never emits more than *)
(* max_rows rows, and examines rows only in                                *)
(* [start_row, start_row + max_rows - 1].                                  *)
(***************************************************************************)
C6_RegionBounded ==
    /\ \A n \in EmittedRows : \A m \in MarkerRows : n < m
    /\ Len(data_list) <= r_cfg.max_rows
    /\ r_examined \subseteq r_cfg.start_row..(r_cfg.start_row + r_cfg.max_rows - 1)

\* A marker in the second scanned row, after an emitted row; and a sheet
\* longer than the window of which the window's rows were emitted.
C6_Witness ==
    /\ r_pc = "done"
    /\ \/ /\ MarkerRows # {}
          /\ EmittedRows # {}
          /\ \E m \in MarkerRows : m <= r_cfg.start_row + r_cfg.max_rows - 1
       \/ /\ Len(r_grid) > r_cfg.start_row + r_cfg.max_rows - 1
          /\ Len(data_list) = r_cfg.max_rows
          /\ ~IsEndMarkerRow(r_grid[Len(r_grid)])
          /\ ~SkipRow(r_fmt, r_cfg, r_grid[Len(r_grid)])

(***************************************************************************)
(* C7: with the shipped extraction settings (skip_empty_rows, a required   *)
(* field), of the rows scanned before the end of the region a row whose    *)
(* required fields are all empty is never emitted and a row with a         *)
(* non-empty required field is always emitted, whatever the type or value  *)
(* of the required cell, in the xlsx and in the xls path.                  *)
(***************************************************************************)
\* An empty cell: no value, or text that is blank once trimmed.
CellEmpty(c) == c.t = "none" \/ (c.t = "str" /\ Strip(c.s) = << >>)

ScannedRows == { n \in r_examined : ~IsEndMarkerRow(r_grid[n]) }

C7_RequiredDecidesEmission ==
    (r_pc = "done" /\ r_cfg.skip_empty_rows /\ r_cfg.required_fields # {}) =>
        \A n \in ScannedRows :
            (n \in EmittedRows) <=>
                (\E f \in r_cfg.required_fields : ~CellEmpty(r_grid[n][f]))

-----------------------------------------------------------------------------
(* Salary computation: SalaryExcelWriter._calculate_salary_data             *)

\* Numbers are exact fractions n/d in lowest terms with d > 0.
RECURSIVE GCD(_, _)
GCD(a, b) == IF b = 0 THEN a ELSE GCD(b, a % b)

Abs(x) == IF x < 0 THEN -x ELSE x

Rat(n, d) ==
    LET sn == IF d < 0 THEN -n ELSE n
        sd == Abs(d)
        g == GCD(Abs(sn), sd)
    IN  [n |-> sn \div g, d |-> sd \div g]

Num(x) == Rat(x, 1)

RAdd(a, b) == Rat(a.n * b.d + b.n * a.d, a.d * b.d)
RMul(a, b) == Rat(a.n * b.n, a.d * b.d)
RDiv(a, b) == Rat(a.n * b.d, a.d * b.n)
RNeg(a) == Rat(-a.n, a.d)

RECURSIVE RSum(_)
RSum(seq) == IF seq = << >> THEN Num(0) ELSE RAdd(Head(seq), RSum(Tail(seq)))

\* A dict entry that may be missing: dict.get(key) is None, or a value.
Missing == [some |-> FALSE, v |-> Num(0)]
Some(x) == [some |-> TRUE, v |-> x]
\* dict.get(key, default)
Get(entry, default) == IF entry.some THEN entry.v ELSE default

\* The closed role set: 服务总监, 服务老师, 操作老师.
JobTypes == {"service_director", "service_teacher", "operation_teacher"}

JOB_SPECIFIC_CONFIG ==
    [ service_director |-> [default_base_salary |-> Num(8000), special_allowance |-> Num(1000)],
      service_teacher |-> [default_base_salary |-> Num(5000), special_allowance |-> Num(500)],
      operation_teacher |-> [default_base_salary |-> Num(5000), special_allowance |-> Num(0)] ]

\* user_config['job_specific_config'].get(job_type, {}): empty, with a base
\* salary, or with base and floating salary.
JobSpecificData ==
    { [base_salary |-> Missing, floating_salary |-> Missing],
      [base_salary |-> Some(Num(7000)), floating_salary |-> Missing],
      [base_salary |-> Some(Num(7000)), floating_salary |-> Some(Num(200))] }

\* other_config and manual_fees: every value missing, or every value set.
OtherConfigs ==
    { [training_allowance |-> Missing, social_security_rate |-> Missing,
       late_deduction_rate |-> Missing, body_rate |-> Missing, face_rate |-> Missing,
       floating_default |-> Missing],
      [training_allowance |-> Some(Num(200)), social_security_rate |-> Some(Rat(50526, 100)),
       late_deduction_rate |-> Some(Num(20)), body_rate |-> Some(Num(60)),
       face_rate |-> Some(Num(80)), floating_default |-> Some(Num(100))] }

UserConfigs ==
    [ base_special : {Missing, Some(Num(6000))},       \* base_salary.special_rates.get(employee_name)
      floating_special : {Missing, Some(Num(300))},    \* floating_salary.special_rates.get(employee_name)
      job_specific_data : JobSpecificData,
      commission_default_rate : {Missing, Some(Num(2))},  \* commission_config.<role line>.default_rate
      commission_rate : {Missing, Some(Num(1))},          \* commission_rates.service_rate / operation_rate
      other : OtherConfigs ]

PerformanceValues == {Num(0), Num(125000)}

MonthDays == {30, 31}

\* _read_attendance_data: `base_monthly_rest_days = 4`, `current_month_holiday_days = 0`
base_monthly_rest_days == 4
current_month_holiday_days == 0

\* What _convert_to_number gives for the rest-days and personal-tax cells of
\* the side table: any number the cell holds, negative ones included.
RestDays == {0, 4, 6}
PersonalTaxAmounts == {-600, 0, 45}

\* actual_absent_days = rest_days - base_monthly_rest_days - current_month_holiday_days
ActualAbsentDays(rest_days) == rest_days - base_monthly_rest_days - current_month_holiday_days

\* The merged side-table entry of an employee (work_days and rest_days are
\* not read by the computation and left out).
OperationData ==
    { [body_count |-> Num(c[1]), face_count |-> Num(c[2]), training_days |-> Num(c[3]),
       actual_absent_days |-> Num(ActualAbsentDays(r)), late_count |-> Num(l),
       personal_tax_amount |-> Num(t)] :
      c \in { << 0, 0, 0 >>, << 2, 1, 1 >> }, r \in RestDays, l \in {0, 3},
      t \in PersonalTaxAmounts }

\* The three entries of one pay line.
Line(qk, rk, ak, q, r, a) == (qk :> q) @@ (rk :> r) @@ (ak :> a)

CommissionAmountMutant(quantity, rate) == RMul(quantity, rate)
\* performance_value * (rate / 100)
CommissionAmount(quantity, rate) == RMul(quantity, RDiv(rate, Num(100)))

\* base_salary_rate: special rate, else job_specific_config, else the role default.
BaseSalaryRate(job, cfg) ==
    IF cfg.base_special.some THEN cfg.base_special.v
    ELSE Get(cfg.job_specific_data.base_salary, JOB_SPECIFIC_CONFIG[job].default_base_salary)

\* job_specific_data is bound only inside `if base_salary_rate is None:`; the
\* floating-salary branch reads it whenever there is no special floating rate.
FloatingRaises(cfg) == cfg.base_special.some /\ ~cfg.floating_special.some

FloatingSalaryRate(cfg) ==
    IF cfg.floating_special.some THEN cfg.floating_special.v
    ELSE Get(cfg.job_specific_data.floating_salary, Get(cfg.other.floating_default, Num(0)))

\* The default rate of the role's commission line.
CommissionRate(job, cfg) ==
    CASE job = "service_director" -> Get(cfg.commission_default_rate, Rat(12, 10))
      [] job = "service_teacher" ->
            Get(cfg.commission_default_rate, Get(cfg.commission_rate, Rat(15, 10)))
      [] job = "operation_teacher" ->
            Get(cfg.commission_default_rate, Get(cfg.commission_rate, Rat(8, 10)))

\* The commission line of a role.
CommissionOf ==
    [ service_director |-> "expert_commission",
      service_teacher |-> "service_commission",
      operation_teacher |-> "operation_commission" ]

CommissionLine(name, job, cfg, perf) ==
    LET active == CommissionOf[job] = name
        q == IF active THEN perf ELSE Num(0)
        r == IF active THEN CommissionRate(job, cfg) ELSE Num(0)
        a == IF active THEN CommissionAmount(perf, r) ELSE Num(0)
    IN  CASE name = "expert_commission" ->
                Line("expert_commission_quantity", "expert_commission_rate", "expert_commission", q, r, a)
          [] name = "service_commission" ->
                Line("service_commission_quantity", "service_commission_rate", "service_commission", q, r, a)
          [] name = "operation_commission" ->
                Line("operation_commission_quantity", "operation_commission_rate", "operation_commission", q, r, a)

BaseLine(job, cfg) ==
    Line("base_salary_quantity", "base_salary_rate", "base_salary",
         Num(1), BaseSalaryRate(job, cfg), RMul(Num(1), BaseSalaryRate(job, cfg)))

\* Everything up to and including total_salary.
SalaryPart(job, cfg, perf, op) ==
    LET lines ==
            BaseLine(job, cfg)
            @@ Line("floating_salary_quantity", "floating_salary_rate", "floating_salary",
                    Num(1), FloatingSalaryRate(cfg), RMul(Num(1), FloatingSalaryRate(cfg)))
            @@ CommissionLine("expert_commission", job, cfg, perf)
            @@ CommissionLine("service_commission", job, cfg, perf)
            @@ CommissionLine("operation_commission", job, cfg, perf)
            @@ Line("training_allowance_quantity", "training_allowance_rate", "training_allowance",
                    op.training_days, Get(cfg.other.training_allowance, Num(0)),
                    RMul(op.training_days, Get(cfg.other.training_allowance, Num(0))))
            @@ Line("body_manual_fee_quantity", "body_manual_fee_rate", "body_manual_fee",
                    op.body_count, Get(cfg.other.body_rate, Num(0)),
                    RMul(op.body_count, Get(cfg.other.body_rate, Num(0))))
            @@ Line("face_manual_fee_quantity", "face_manual_fee_rate", "face_manual_fee",
                    op.face_count, Get(cfg.other.face_rate, Num(0)),
                    RMul(op.face_count, Get(cfg.other.face_rate, Num(0))))
            @@ ("special_allowance" :> JOB_SPECIFIC_CONFIG[job].special_allowance)
    IN  lines @@
        ("total_salary" :>
            RSum(<< lines["base_salary"], lines["floating_salary"],
                    lines["expert_commission"], lines["service_commission"],
                    lines["operation_commission"], lines["training_allowance"],
                    lines["body_manual_fee"], lines["face_manual_fee"],
                    lines["special_allowance"] >>))

\* The deduction lines, deduction total and net salary.
DeductionPart(sal, cfg, op, days) ==
    LET absent_rate == IF days > 0 THEN RDiv(sal["base_salary"], Num(days)) ELSE Num(0)
        absent_quantity == IF op.actual_absent_days.n > 0
                           THEN RNeg(op.actual_absent_days) ELSE Num(0)
        late_rate == Get(cfg.other.late_deduction_rate, Num(20))
        late_quantity == IF op.late_count.n > 0 THEN RNeg(op.late_count) ELSE Num(0)
        social_rate == Get(cfg.other.social_security_rate, Rat(50526, 100))
        lines ==
            Line("absent_deduction_quantity", "absent_deduction_rate", "absent_deduction",
                 absent_quantity, absent_rate, RMul(absent_quantity, absent_rate))
            @@ Line("late_deduction_quantity", "late_deduction_rate", "late_deduction",
                    late_quantity, late_rate, RMul(late_quantity, late_rate))
            @@ Line("social_security_quantity", "social_security_rate", "social_security",
                    Num(-1), social_rate, RMul(Num(-1), social_rate))
            @@ Line("personal_tax_quantity", "personal_tax_rate", "personal_tax",
                    Num(-1), op.personal_tax_amount, RMul(Num(-1), op.personal_tax_amount))
        deduction_total == RSum(<< lines["absent_deduction"], lines["late_deduction"],
                                   lines["social_security"], lines["personal_tax"] >>)
    IN  lines @@ ("total_deduction" :> deduction_total)
              @@ ("net_salary" :> RAdd(sal["total_salary"], deduction_total))

\* The map returned by _calculate_salary_data; when the floating-salary
\* branch raises, the except clause returns what was stored before it.
CalculateSalaryData(job, cfg, perf, op, days) ==
    IF FloatingRaises(cfg)
    THEN BaseLine(job, cfg)
    ELSE LET sal == SalaryPart(job, cfg, perf, op)
         IN  sal @@ DeductionPart(sal, cfg, op, days)

SalaryIdle ==
    /\ job_type = "service_teacher"
    /\ user_config = << >>
    /\ performance_value = Num(0)
    /\ operation_data = << >>
    /\ current_month_days = 30
    /\ calculated = << >>
    /\ returned_maps = << >>
    /\ s_pc = "returned"

CalculateSalary ==
    /\ s_pc = "call"
    /\ calculated' = CalculateSalaryData(job_type, user_config, performance_value,
                                         operation_data, current_month_days)
    /\ returned_maps' = Append(returned_maps, calculated')
    /\ s_pc' = "returned"
    /\ UNCHANGED << job_type, user_config, performance_value, operation_data,
                    current_month_days >>
    /\ UNCHANGED not_salary_vars

SalaryStep == CalculateSalary

\* A further call with the same record, operation data, role and
\* configuration; `datetime.now()` is read again at that call.
CallAgain ==
    /\ s_pc = "returned"
    /\ Len(returned_maps) < MaxCalls
    /\ current_month_days' \in MonthDays
    /\ s_pc' = "call"
    /\ UNCHANGED << job_type, user_config, performance_value, operation_data,
                    calculated, returned_maps >>
    /\ UNCHANGED not_salary_vars

SalaryRunsStep == CalculateSalary \/ CallAgain

\* The pay lines: the keys of quantity, rate and amount.
CommissionLines ==
    { << "expert_commission_quantity", "expert_commission_rate", "expert_commission" >>,
      << "service_commission_quantity", "service_commission_rate", "service_commission" >>,
      << "operation_commission_quantity", "operation_commission_rate", "operation_commission" >> }

OtherLines ==
    { << "base_salary_quantity", "base_salary_rate", "base_salary" >>,
      << "floating_salary_quantity", "floating_salary_rate", "floating_salary" >>,
      << "training_allowance_quantity", "training_allowance_rate", "training_allowance" >>,
      << "body_manual_fee_quantity", "body_manual_fee_rate", "body_manual_fee" >>,
      << "face_manual_fee_quantity", "face_manual_fee_rate", "face_manual_fee" >>,
      << "absent_deduction_quantity", "absent_deduction_rate", "absent_deduction" >>,
      << "late_deduction_quantity", "late_deduction_rate", "late_deduction" >>,
      << "social_security_quantity", "social_security_rate", "social_security" >>,
      << "personal_tax_quantity", "personal_tax_rate", "personal_tax" >> }

Stored(l) == {l[1], l[2], l[3]} \subseteq DOMAIN calculated

(***************************************************************************)
(* C8 as stated: every pay line stored in the returned map, the commission *)
(* lines included, has amount = quantity * rate.                           *)
(***************************************************************************)
C8_AmountIsProduct ==
    s_pc = "returned" =>
        \A l \in OtherLines \cup CommissionLines :
            Stored(l) => calculated[l[3]] = RMul(calculated[l[1]], calculated[l[2]])

(***************************************************************************)
(* C8, amended: every stored pay line other than a commission line has     *)
(* amount = quantity * rate, and every stored commission line has          *)
(* amount = quantity * rate / 100 (its rate is a percentage).              *)
(***************************************************************************)
C8_AmountIsProductOrPercent ==
    s_pc = "returned" =>
        /\ \A l \in OtherLines :
              Stored(l) => calculated[l[3]] = RMul(calculated[l[1]], calculated[l[2]])
        /\ \A l \in CommissionLines :
              Stored(l) => calculated[l[3]] =
                              RDiv(RMul(calculated[l[1]], calculated[l[2]]), Num(100))

\* A complete map with a non-zero commission and non-zero deductions.
C8_Witness ==
    /\ s_pc = "returned"
    /\ \A l \in OtherLines \cup CommissionLines : Stored(l)
    /\ calculated["service_commission"] = Num(1875)
    /\ calculated["absent_deduction"].n < 0
    /\ calculated["body_manual_fee"] = Num(120)

(***************************************************************************)
(* C9: the gross total (total_salary) is the sum of the amounts of base    *)
(* salary, floating salary, the role's commission line, training           *)
(* allowance, body manual fee and face manual fee, and nothing else;       *)
(* scenario B (service teacher, base 5000, floating 0, performance 125000, *)
(* rate 1.5, no manual fee or training) gives 6875.                        *)
(***************************************************************************)
C9_GrossTotalIsSumOfLines ==
    (s_pc = "returned" /\ "total_salary" \in DOMAIN calculated) =>
        calculated["total_salary"] =
            RSum(<< calculated["base_salary"], calculated["floating_salary"],
                    calculated[CommissionOf[job_type]], calculated["training_allowance"],
                    calculated["body_manual_fee"], calculated["face_manual_fee"] >>)

(***************************************************************************)
(* C10: for each role the returned map holds the role's commission line    *)
(* with quantity = the performance value and amount = quantity * rate /    *)
(* 100, and holds 0 for quantity, rate and amount of the two other         *)
(* commission lines.                                                       *)
(***************************************************************************)
C10_OneCommissionLine ==
    s_pc = "returned" =>
        \A l \in CommissionLines :
            /\ Stored(l)
            /\ IF l[3] = CommissionOf[job_type]
               THEN /\ calculated[l[1]] = performance_value
                    /\ calculated[l[3]] =
                          RDiv(RMul(calculated[l[1]], calculated[l[2]]), Num(100))
               ELSE /\ calculated[l[1]] = Num(0)
                    /\ calculated[l[2]] = Num(0)
                    /\ calculated[l[3]] = Num(0)

(***************************************************************************)
(* C11: the returned map holds the absence deduction with quantity =       *)
(* -actual_absent_days when actual_absent_days > 0 and 0 otherwise, rate = *)
(* base-salary amount / days of the current month (non-negative), and      *)
(* amount = quantity * rate, never positive; 2 absent days, base 6000 and  *)
(* a 30-day month give rate 200, quantity -2, amount -400.                 *)
(***************************************************************************)
AbsentLine == << "absent_deduction_quantity", "absent_deduction_rate", "absent_deduction" >>

AbsenceDeductionAsSpecified ==
    /\ calculated["absent_deduction_quantity"] =
          (IF operation_data.actual_absent_days.n > 0
           THEN RNeg(operation_data.actual_absent_days) ELSE Num(0))
    /\ calculated["absent_deduction_rate"] =
          RDiv(calculated["base_salary"], Num(current_month_days))
    /\ calculated["absent_deduction_rate"].n >= 0
    /\ calculated["absent_deduction"] =
          RMul(calculated["absent_deduction_quantity"], calculated["absent_deduction_rate"])
    /\ calculated["absent_deduction"].n <= 0

C11_AbsenceDeduction ==
    s_pc = "returned" => (Stored(AbsentLine) /\ AbsenceDeductionAsSpecified)

(***************************************************************************)
(* C12: the deduction total is the sum of the absence-deduction,           *)
(* late-deduction, social-security and personal-tax amounts and is never   *)
(* positive, for every operation-data entry the side-table readers can     *)
(* produce.                                                                *)
(***************************************************************************)
C12_DeductionTotalNonPositive ==
    (s_pc = "returned" /\ "total_deduction" \in DOMAIN calculated) =>
        /\ calculated["total_deduction"] =
              RSum(<< calculated["absent_deduction"], calculated["late_deduction"],
                      calculated["social_security"], calculated["personal_tax"] >>)
        /\ calculated["total_deduction"].n <= 0

(***************************************************************************)
(* C26: the returned map holds quantity, rate and amount of every pay      *)
(* line, and total_salary, total_deduction and net_salary with net_salary  *)
(* = total_salary + total_deduction, for every employee and every role,    *)
(* an employee with a special base-salary rate and no special              *)
(* floating-salary rate included.                                          *)
(***************************************************************************)
TotalKeys == {"total_salary", "total_deduction", "net_salary"}

C26_CompleteMap ==
    s_pc = "returned" =>
        /\ \A l \in OtherLines \cup CommissionLines : Stored(l)
        /\ TotalKeys \subseteq DOMAIN calculated
        /\ calculated["net_salary"] =
              RAdd(calculated["total_salary"], calculated["total_deduction"])

(***************************************************************************)
(* C13: calls of _calculate_salary_data with the same record, operation    *)
(* data, role and configuration return the same map, whatever the date of  *)
(* each call.                                                              *)
(***************************************************************************)
C13_Deterministic ==
    \A a, b \in DOMAIN returned_maps : returned_maps[a] = returned_maps[b]

(***************************************************************************)
(* C14: a configuration value missing from the user configuration (base    *)
(* salary, floating salary, commission rate, manual-fee rates, training    *)
(* allowance, social-security rate, late-deduction rate) is treated as 0,  *)
(* and the computation never raises because of a missing value.            *)
(***************************************************************************)
\* The rate stored under key is 0, when one is stored.
ZeroRate(key) == key \in DOMAIN calculated => calculated[key] = Num(0)

CommissionRateKey ==
    [ service_director |-> "expert_commission_rate",
      service_teacher |-> "service_commission_rate",
      operation_teacher |-> "operation_commission_rate" ]

C14_MissingConfigIsZero ==
    s_pc = "returned" =>
        /\ "net_salary" \in DOMAIN calculated
        /\ (~user_config.base_special.some /\ ~user_config.job_specific_data.base_salary.some)
              => ZeroRate("base_salary_rate")
        /\ (~user_config.floating_special.some
            /\ ~user_config.job_specific_data.floating_salary.some
            /\ ~user_config.other.floating_default.some)
              => ZeroRate("floating_salary_rate")
        /\ (~user_config.commission_default_rate.some /\ ~user_config.commission_rate.some)
              => ZeroRate(CommissionRateKey[job_type])
        /\ ~user_config.other.body_rate.some => ZeroRate("body_manual_fee_rate")
        /\ ~user_config.other.face_rate.some => ZeroRate("face_manual_fee_rate")
        /\ ~user_config.other.training_allowance.some => ZeroRate("training_allowance_rate")
        /\ ~user_config.other.social_security_rate.some => ZeroRate("social_security_rate")
        /\ ~user_config.other.late_deduction_rate.some => ZeroRate("late_deduction_rate")

-----------------------------------------------------------------------------
(* Salary batch: SalaryProcessorController.process_files and               *)
(* _process_single_file                                                     *)

\* SALARY_CONFIG['job_types'], in list order.
job_types == << "service_director", "service_teacher", "operation_teacher" >>

\* determine_job_type_from_filename: the first job type of the list that the
\* file name contains, "none" for None.
DetermineJobTypeFromFilename(name_contains) ==
    IF \E k \in DOMAIN job_types : job_types[k] \in name_contains
    THEN job_types[CHOOSE k \in DOMAIN job_types :
                      /\ job_types[k] \in name_contains
                      /\ \A j \in 1..(k - 1) : job_types[j] \notin name_contains]
    ELSE "none"

\* determine_job_type: the role guessed from the performance value.
DetermineJobType(value) ==
    IF value > 100000 THEN job_types[1]
    ELSE IF value > 50000 THEN job_types[2]
    ELSE job_types[3]

Employee(n, p, w) == [name |-> n, performance_value |-> p, writer_ok |-> w]

\* The salary files of a source directory: an unreadable one, one whose name
\* holds no role name, files named after a role, and one without employees.
\* writer_ok FALSE is an employee whose process_salary_file call fails for
\* another reason than the template (fill or save error).
SalaryFileKinds ==
    { [name_contains |-> {"service_teacher"}, readable |-> FALSE, employees |-> << >>],
      [name_contains |-> {}, readable |-> TRUE,
       employees |-> << Employee("e1", 40000, TRUE) >>],
      [name_contains |-> {"service_teacher"}, readable |-> TRUE,
       employees |-> << Employee("e1", 125000, TRUE), Employee("e2", 40000, FALSE) >>],
      [name_contains |-> {"operation_teacher"}, readable |-> TRUE,
       employees |-> << Employee("e1", 40000, TRUE) >>],
      [name_contains |-> {"service_director"}, readable |-> TRUE,
       employees |-> << Employee("e2", 125000, TRUE) >>],
      [name_contains |-> {"service_teacher"}, readable |-> TRUE, employees |-> << >>] }

SalaryFileLists(bound) == UNION { [1..n -> SalaryFileKinds] : n \in 0..bound }

\* self.template_paths (paths) and the roles whose template file exists.
TemplateConfigs ==
    { [paths |-> {}, existing |-> {}],
      [paths |-> {"service_teacher", "operation_teacher"},
       existing |-> {"service_teacher", "operation_teacher"}],
      [paths |-> {"service_teacher", "operation_teacher"}, existing |-> {"service_teacher"}],
      [paths |-> JobTypes, existing |-> JobTypes] }

\* _generate_output_path: '<name>_<month>_<job_type>_工资条.xlsx' in output_dir
\* (one month per run).
SalaryOutputPath(emp, job) == [name |-> emp.name, job_type |-> job]

\* The role used for an employee: the file-name role, else the guess.
EmployeeJobType(emp, job_type_from_file) ==
    IF job_type_from_file # "none" THEN job_type_from_file
    ELSE DetermineJobType(emp.performance_value)

\* The employee loop of _process_single_file: an employee whose role has no
\* entry in template_paths is skipped (continue); a failure of
\* process_salary_file (template file missing, fill or save error) is caught
\* and the employee skipped.
RECURSIVE EmployeeOutputs(_, _, _)
EmployeeOutputs(emps, job_type_from_file, templates) ==
    IF emps = << >> THEN << >>
    ELSE LET emp == Head(emps)
             job == EmployeeJobType(emp, job_type_from_file)
             rest == EmployeeOutputs(Tail(emps), job_type_from_file, templates)
         IN  IF job \in templates.paths /\ job \in templates.existing /\ emp.writer_ok
             THEN << SalaryOutputPath(emp, job) >> \o rest
             ELSE rest

NotStarted == [state |-> "none", outputs |-> << >>]

\* _process_single_file(file_path, ...): raises, or returns output_files.
ProcessSingleSalaryFile(file, templates, stop) ==
    LET job_type_from_file == DetermineJobTypeFromFilename(file.name_contains)
    IN  IF ~file.readable THEN [state |-> "raised", outputs |-> << >>]
        ELSE IF job_type_from_file # "none" /\ job_type_from_file \notin templates.paths
        THEN [state |-> "returned", outputs |-> << >>]
        ELSE IF stop THEN [state |-> "returned", outputs |-> << >>]
        ELSE [state |-> "returned",
              outputs |-> EmployeeOutputs(file.employees, job_type_from_file, templates)]

NoResult ==
    [success |-> FALSE, processed_files |-> 0, failed_files |-> 0, total_files |-> 0,
     output_files |-> << >>, errors |-> << >>]

SalaryFilesIdle ==
    /\ sf_files = << >>
    /\ sf_templates = [paths |-> {}, existing |-> {}]
    /\ sf_max_workers = 1
    /\ sf_pc = "done"
    /\ sf_i = 1
    /\ sf_is_processing = FALSE
    /\ sf_should_stop = FALSE
    /\ sf_result = NoResult
    /\ sf_file_result = << >>
    /\ sf_yielded = {}
    /\ sf_processed = {}
    /\ sf_failed = {}

\* process_files up to the choice of the processing mode.  An entry k of
\* errors is the message about file k; 0 is the batch-level message.
ProcessSalaryFiles ==
    /\ sf_pc = "idle"
    /\ sf_is_processing' = TRUE
    /\ sf_should_stop' = FALSE
    /\ sf_result' = [NoResult EXCEPT !.total_files = Len(sf_files)]
    /\ \E makedirs_ok \in BOOLEAN :
          sf_pc' = IF sf_files = << >> \/ sf_templates.paths = {} \/ ~makedirs_ok
                   THEN "except"
                   ELSE IF sf_max_workers <= 1 THEN "loop" ELSE "submit"
    /\ UNCHANGED << sf_files, sf_templates, sf_max_workers, sf_i, sf_file_result,
                    sf_yielded, sf_processed, sf_failed >>
    /\ UNCHANGED not_salary_files_vars

\* stop_processing(), from another thread.
SalaryStopProcessing ==
    /\ sf_pc \notin {"idle", "done"}
    /\ ~sf_should_stop
    /\ sf_should_stop' = TRUE
    /\ UNCHANGED << sf_files, sf_templates, sf_max_workers, sf_pc, sf_i, sf_is_processing,
                    sf_result, sf_file_result, sf_yielded, sf_processed, sf_failed >>
    /\ UNCHANGED not_salary_files_vars

\* One iteration of the single-thread loop, or its end.
SingleThreadFile ==
    /\ sf_pc = "loop"
    /\ IF sf_i > Len(sf_files) \/ sf_should_stop
       THEN /\ sf_pc' = "after"
            /\ UNCHANGED << sf_i, sf_result, sf_file_result, sf_processed, sf_failed >>
       ELSE LET r == ProcessSingleSalaryFile(sf_files[sf_i], sf_templates, sf_should_stop)
            IN  /\ sf_file_result' = [sf_file_result EXCEPT ![sf_i] = r]
                /\ sf_i' = sf_i + 1
                /\ UNCHANGED sf_pc
                /\ IF r.state = "raised"
                   THEN /\ sf_result' = [sf_result EXCEPT !.failed_files = @ + 1,
                                                    !.errors = Append(@, sf_i)]
                        /\ sf_failed' = sf_failed \cup {sf_i}
                        /\ UNCHANGED sf_processed
                   ELSE \E progress_raises \in BOOLEAN :
                        /\ sf_processed' = sf_processed \cup {sf_i}
                        /\ IF progress_raises
                           THEN /\ sf_result' = [sf_result EXCEPT
                                                 !.output_files = @ \o r.outputs,
                                                 !.processed_files = @ + 1,
                                                 !.failed_files = @ + 1,
                                                 !.errors = Append(@, sf_i)]
                                /\ sf_failed' = sf_failed \cup {sf_i}
                           ELSE /\ sf_result' = [sf_result EXCEPT
                                                 !.output_files = @ \o r.outputs,
                                                 !.processed_files = @ + 1]
                                /\ UNCHANGED sf_failed
    /\ UNCHANGED << sf_files, sf_templates, sf_max_workers, sf_is_processing,
                    sf_should_stop, sf_yielded >>
    /\ UNCHANGED not_salary_files_vars

\* The submit loop of the pool path: every file is submitted unless stop is set.
PoolSubmit ==
    /\ sf_pc = "submit"
    /\ sf_file_result' =
          IF sf_should_stop THEN sf_file_result
          ELSE [k \in DOMAIN sf_files |-> [state |-> "submitted", outputs |-> << >>]]
    /\ sf_pc' = "collect"
    /\ UNCHANGED << sf_files, sf_templates, sf_max_workers, sf_i, sf_is_processing,
                    sf_should_stop, sf_result, sf_yielded, sf_processed, sf_failed >>
    /\ UNCHANGED not_salary_files_vars

\* A pool worker runs _process_single_file for a submitted file.
PoolTaskRun(k) ==
    /\ sf_file_result[k].state = "submitted"
    /\ sf_file_result' = [sf_file_result EXCEPT
                             ![k] = ProcessSingleSalaryFile(sf_files[k], sf_templates,
                                                            sf_should_stop)]
    /\ UNCHANGED << sf_files, sf_templates, sf_max_workers, sf_pc, sf_i, sf_is_processing,
                    sf_should_stop, sf_result, sf_yielded, sf_processed, sf_failed >>
    /\ UNCHANGED not_salary_files_vars

Submitted == { k \in DOMAIN sf_files : sf_file_result[k].state # "none" }

\* One iteration of `for future in as_completed(future_to_file)`, or its end.
PoolCollect ==
    /\ sf_pc = "collect"
    /\ IF Submitted \subseteq sf_yielded
       THEN /\ sf_pc' = "shutdown"
            /\ UNCHANGED << sf_result, sf_yielded, sf_processed, sf_failed >>
       ELSE \E k \in Submitted \ sf_yielded :
            /\ sf_file_result[k].state \in {"returned", "raised"}
            /\ sf_yielded' = sf_yielded \cup {k}
            /\ IF sf_should_stop
               THEN /\ sf_pc' = "shutdown"
                    /\ UNCHANGED << sf_result, sf_processed, sf_failed >>
               ELSE /\ IF sf_file_result[k].state = "raised"
                       THEN /\ sf_result' = [sf_result EXCEPT !.failed_files = @ + 1,
                                                        !.errors = Append(@, k)]
                            /\ sf_failed' = sf_failed \cup {k}
                            /\ UNCHANGED sf_processed
                       ELSE IF sf_file_result[k].outputs # << >>
                       THEN /\ sf_result' = [sf_result EXCEPT
                                             !.output_files = @ \o sf_file_result[k].outputs,
                                             !.processed_files = @ + 1]
                            /\ sf_processed' = sf_processed \cup {k}
                            /\ UNCHANGED sf_failed
                       ELSE /\ sf_result' = [sf_result EXCEPT !.failed_files = @ + 1]
                            /\ sf_failed' = sf_failed \cup {k}
                            /\ UNCHANGED sf_processed
                    /\ \E progress_raises \in BOOLEAN :
                          sf_pc' = IF progress_raises THEN "shutdown_err" ELSE "collect"
    /\ UNCHANGED << sf_files, sf_templates, sf_max_workers, sf_i, sf_is_processing,
                    sf_should_stop, sf_file_result >>
    /\ UNCHANGED not_salary_files_vars

\* Leaving the `with ThreadPoolExecutor` block waits for every submitted task.
PoolShutdown ==
    /\ sf_pc \in {"shutdown", "shutdown_err"}
    /\ \A k \in Submitted : sf_file_result[k].state \in {"returned", "raised"}
    /\ sf_pc' = IF sf_pc = "shutdown" THEN "after" ELSE "except"
    /\ UNCHANGED << sf_files, sf_templates, sf_max_workers, sf_i, sf_is_processing,
                    sf_should_stop, sf_result, sf_file_result, sf_yielded, sf_processed,
                    sf_failed >>
    /\ UNCHANGED not_salary_files_vars

\* `if self.should_stop: ... else: sf_result['success'] = True`
AfterFiles ==
    /\ sf_pc = "after"
    /\ sf_result' = [sf_result EXCEPT !.success = ~sf_should_stop]
    /\ sf_pc' = "finally"
    /\ UNCHANGED << sf_files, sf_templates, sf_max_workers, sf_i, sf_is_processing,
                    sf_should_stop, sf_file_result, sf_yielded, sf_processed, sf_failed >>
    /\ UNCHANGED not_salary_files_vars

\* The outer `except Exception` of process_files.
SalaryFilesExcept ==
    /\ sf_pc = "except"
    /\ sf_result' = [sf_result EXCEPT !.errors = Append(@, 0)]
    /\ sf_pc' = "finally"
    /\ UNCHANGED << sf_files, sf_templates, sf_max_workers, sf_i, sf_is_processing,
                    sf_should_stop, sf_file_result, sf_yielded, sf_processed, sf_failed >>
    /\ UNCHANGED not_salary_files_vars

\* finally: is_processing = False; return sf_result
SalaryFilesFinally ==
    /\ sf_pc = "finally"
    /\ sf_is_processing' = FALSE
    /\ sf_pc' = "done"
    /\ UNCHANGED << sf_files, sf_templates, sf_max_workers, sf_i, sf_should_stop, sf_result,
                    sf_file_result, sf_yielded, sf_processed, sf_failed >>
    /\ UNCHANGED not_salary_files_vars

SalaryFilesStep ==
    \/ ProcessSalaryFiles
    \/ SalaryStopProcessing
    \/ SingleThreadFile
    \/ PoolSubmit
    \/ \E k \in DOMAIN sf_files : PoolTaskRun(k)
    \/ PoolCollect
    \/ PoolShutdown
    \/ AfterFiles
    \/ SalaryFilesExcept
    \/ SalaryFilesFinally

(***************************************************************************)
(* C15: a record whose role cannot be resolved (the file name holds no     *)
(* role name) or whose resolved role has no template mapping is reported   *)
(* as a failure (failed count and error list); it is never given a default *)
(* role and never dropped while its file is counted as processed.          *)
(***************************************************************************)
\* The file has records, and their role is not in the file name or has no
\* entry in template_paths.
RoleUnresolved(file) ==
    /\ file.readable
    /\ file.employees # << >>
    /\ \/ DetermineJobTypeFromFilename(file.name_contains) = "none"
       \/ DetermineJobTypeFromFilename(file.name_contains) \notin sf_templates.paths

C15_UnresolvedRoleIsFailure ==
    (sf_pc = "done" /\ ~sf_should_stop) =>
        \A k \in DOMAIN sf_files :
            (sf_file_result[k].state = "returned" /\ k \in sf_processed \cup sf_failed
             /\ RoleUnresolved(sf_files[k])) =>
                /\ sf_file_result[k].outputs = << >>
                /\ k \notin sf_processed
                /\ k \in sf_failed
                /\ \E e \in DOMAIN sf_result.errors : sf_result.errors[e] = k

\* The files whose _process_single_file call was started (and has ended).
StartedFiles == { k \in DOMAIN sf_files : sf_file_result[k].state \in {"returned", "raised"} }

(***************************************************************************)
(* C24: the result returned by process_files has exactly one error message *)
(* per failed item: len(errors) = failed_files, and processed_files +      *)
(* failed_files is the number of files whose processing was started, in    *)
(* the single-thread path and in the thread-pool path.                     *)
(***************************************************************************)
C24_CountsMatchErrors ==
    sf_pc = "done" =>
        /\ Len(sf_result.errors) = sf_result.failed_files
        /\ sf_result.processed_files + sf_result.failed_files = Cardinality(StartedFiles)

\* The employees of a file whose role has a template path and template file.
WithTemplate(file) ==
    { j \in DOMAIN file.employees :
        LET job == EmployeeJobType(file.employees[j],
                                   DetermineJobTypeFromFilename(file.name_contains))
        IN  job \in sf_templates.paths /\ job \in sf_templates.existing }

RecordPath(file, j) ==
    SalaryOutputPath(file.employees[j],
                     EmployeeJobType(file.employees[j],
                                     DetermineJobTypeFromFilename(file.name_contains)))

(***************************************************************************)
(* C25: in one-document-per-record mode every employee record whose role   *)
(* has an existing template file yields exactly one output document whose  *)
(* path is appended to output_files: a file counted in processed_files has *)
(* an output document for each of its employees that has a template.       *)
(***************************************************************************)
C25_OneDocumentPerRecord ==
    sf_pc = "done" =>
        \A k \in sf_processed :
            /\ \A j \in WithTemplate(sf_files[k]) :
                   /\ \E o \in DOMAIN sf_file_result[k].outputs :
                          sf_file_result[k].outputs[o] = RecordPath(sf_files[k], j)
                   /\ \E o \in DOMAIN sf_result.output_files :
                          sf_result.output_files[o] = RecordPath(sf_files[k], j)
            /\ Len(sf_file_result[k].outputs) = Cardinality(WithTemplate(sf_files[k]))

\* The documents present in the output directory after the listed writes:
\* one per distinct path, a later write to a path replaces the earlier one.
Documents(paths) == { paths[k] : k \in DOMAIN paths }

(***************************************************************************)
(* C28: within one batch two different source items that are both reported *)
(* as succeeded never map to the same output path, so the number of output *)
(* documents after the batch equals the number of reported successes; this *)
(* includes files with equal base names in different sub-directories and   *)
(* two employees with the same name, month and role.                       *)
(***************************************************************************)
C28_DistinctOutputPaths ==
    /\ pc = "done" =>
          \A c \in DOMAIN completed :
              Cardinality(Documents(completed[c].success)) = Len(completed[c].success)
    /\ sf_pc = "done" =>
          Cardinality(Documents(sf_result.output_files)) = Len(sf_result.output_files)

-----------------------------------------------------------------------------
(* Header location: OperationTableReader._find_manual_fee_headers and      *)
(* _find_attendance_headers                                                 *)

\* A cell is characterised by whether it holds text and by the keyword
\* classes its text contains: "name" (姓名, 名字, 员工, 操作老师, 老师),
\* "body_count_col" (部位数量 without 手工 and 元), "face_count_col" (面部数量,
\* 面部), "rest_days_col" (休息, 休假), "late_count_col" (迟到),
\* "training_days_col" (培训), "personal_tax_col" (个税, 所得税, 税金, 税额).
Blank == [text |-> FALSE, contains |-> {}]
Text(classes) == [text |-> TRUE, contains |-> classes]

\* The elif chain after the name test, in source order.
SecondaryKeys(kind) ==
    IF kind = "manual_fee"
    THEN << "body_count_col", "face_count_col" >>
    ELSE << "rest_days_col", "late_count_col", "training_days_col", "personal_tax_col" >>

\* The branch of the if/elif chain a cell takes: "name", a secondary key, or
\* "none" (`if cell_value and isinstance(cell_value, str)` fails, or no
\* keyword matches).
Branch(kind, cell) ==
    LET keys == SecondaryKeys(kind)
    IN  IF ~cell.text THEN "none"
        ELSE IF "name" \in cell.contains THEN "name"
        ELSE IF \E k \in DOMAIN keys : keys[k] \in cell.contains
        THEN keys[CHOOSE k \in DOMAIN keys :
                     /\ keys[k] \in cell.contains
                     /\ \A j \in 1..(k - 1) : keys[j] \notin cell.contains]
        ELSE "none"

\* The columns a sheet is given cells in: two inside the first 20 columns
\* and one beyond.
HeaderCols == {1, 2, 21}

\* The rows a sheet can hold: column 1 blank, a name header or a secondary
\* header; column 2 a number, a header naming both a name keyword and a
\* secondary keyword, or a secondary header; column 21 blank or a name header.
HeaderRows(kind) ==
    LET a == IF kind = "manual_fee" THEN "body_count_col" ELSE "rest_days_col"
        b == IF kind = "manual_fee" THEN "face_count_col" ELSE "personal_tax_col"
    IN  { [c \in HeaderCols |-> IF c = 1 THEN x ELSE IF c = 2 THEN y ELSE z] :
          x \in { Blank, Text({"name"}), Text({a}) },
          y \in { Blank, Text({"name", b}), Text({b}) },
          z \in { Blank, Text({"name"}) } }

BlankRow == [c \in HeaderCols |-> Blank]

\* Leading blank rows followed by up to `bound` rows.
HeaderSheets(kind, bound) ==
    { [r \in 1..(lead + Len(rows)) |-> IF r <= lead THEN BlankRow ELSE rows[r - lead]] :
      lead \in {0, 2, 9},
      rows \in UNION { [1..n -> HeaderRows(kind)] : n \in 0..bound } }

\* worksheet.max_column, at least 1.
MaxColumn(sheet) ==
    LET used == { c \in HeaderCols : \E r \in DOMAIN sheet : sheet[r][c] # Blank }
    IN  IF used = {} THEN 1 ELSE CHOOSE c \in used : \A d \in used : d <= c

LastSearchedRowMutant(sheet) == Len(sheet)
\* range(1, min(11, worksheet.max_row + 1))
LastSearchedRow(sheet) == IF Len(sheet) + 1 < 11 THEN Len(sheet) ELSE 10

\* range(1, min(21, worksheet.max_column + 1))
SearchedCols(sheet) ==
    { c \in HeaderCols : c < (IF MaxColumn(sheet) + 1 < 21 THEN MaxColumn(sheet) + 1 ELSE 21) }

NoHeaderInfo ==
    [header_row |-> 0, name_col |-> 0, body_count_col |-> 0, face_count_col |-> 0,
     rest_days_col |-> 0, late_count_col |-> 0, training_days_col |-> 0,
     personal_tax_col |-> 0]

NotFound == [header_row |-> -1]

\* The inner loop over the cells of a row, in column order: each cell's
\* branch stores its column under its key.
RECURSIVE ScanCells(_, _, _, _)
ScanCells(kind, row, cols, info) ==
    IF cols = {} THEN info
    ELSE LET c == CHOOSE x \in cols : \A y \in cols : x <= y
             b == Branch(kind, row[c])
             next == IF b = "none" THEN info
                     ELSE IF b = "name" THEN [info EXCEPT !.name_col = c]
                     ELSE [info EXCEPT ![b] = c]
         IN  ScanCells(kind, row, cols \ {c}, next)

\* name_found for a row
NameFound(kind, row, cols) == \E c \in cols : Branch(kind, row[c]) = "name"

HeaderIdle ==
    /\ h_kind = "manual_fee"
    /\ h_sheet = << >>
    /\ row_idx = 1
    /\ header_info = NoHeaderInfo
    /\ h_pc = "done"
    /\ h_return = NotFound

\* One iteration of `for row_idx in range(...)`, or its end.
HeaderScanRow ==
    /\ h_pc = "scan"
    /\ IF row_idx > LastSearchedRow(h_sheet)
       THEN /\ h_pc' = "validate"
            /\ UNCHANGED << row_idx, header_info >>
       ELSE LET cols == SearchedCols(h_sheet)
                info == ScanCells(h_kind, h_sheet[row_idx], cols, header_info)
            IN  IF NameFound(h_kind, h_sheet[row_idx], cols)
                THEN /\ header_info' = [info EXCEPT !.header_row = row_idx]
                     /\ h_pc' = "validate"
                     /\ UNCHANGED row_idx
                ELSE /\ header_info' = info
                     /\ row_idx' = row_idx + 1
                     /\ UNCHANGED h_pc
    /\ UNCHANGED << h_kind, h_sheet, h_return >>
    /\ UNCHANGED not_header_vars

\* `if header_info['header_row'] and header_info['name_col']: return header_info`
HeaderValidate ==
    /\ h_pc = "validate"
    /\ h_return' = IF header_info.header_row # 0 /\ header_info.name_col # 0
                   THEN header_info ELSE NotFound
    /\ h_pc' = "done"
    /\ UNCHANGED << h_kind, h_sheet, row_idx, header_info >>
    /\ UNCHANGED not_header_vars

HeaderStep == HeaderScanRow \/ HeaderValidate

(***************************************************************************)
(* C16: the header finders return header_row = the first row, within rows  *)
(* 1..10 and columns 1..20, that has a text cell containing a name         *)
(* keyword, with name_col a column of that row holding a name keyword, and *)
(* return not-found exactly when the window has no such cell.              *)
(***************************************************************************)
\* The text cells of the window that contain a name keyword.
NameCells ==
    { rc \in (1..Len(h_sheet)) \X HeaderCols :
        /\ rc[1] <= 10
        /\ rc[2] <= 20
        /\ h_sheet[rc[1]][rc[2]].text
        /\ "name" \in h_sheet[rc[1]][rc[2]].contains }

C16_HeaderLocation ==
    h_pc = "done" =>
        IF NameCells = {}
        THEN h_return = NotFound
        ELSE /\ h_return # NotFound
             /\ \A rc \in NameCells : h_return.header_row <= rc[1]
             /\ << h_return.header_row, h_return.name_col >> \in NameCells

\* Headers in row 3 below two blank rows; and a sheet whose only name
\* keywords lie outside the window.
C16_Witness ==
    /\ h_pc = "done"
    /\ \/ /\ h_return # NotFound
          /\ h_return.header_row = 3
          /\ h_return.name_col = 2
          /\ h_sheet[3][1].text
       \/ /\ h_return = NotFound
          /\ Len(h_sheet) = 11
          /\ h_sheet[11][1].contains = {"name"}
          /\ h_sheet[10][21].contains = {"name"}

(***************************************************************************)
(* C29: every secondary column index returned by the header finders        *)
(* (body_count_col, face_count_col; rest_days_col, late_count_col,         *)
(* training_days_col, personal_tax_col) was bound from a cell of the       *)
(* returned header_row; a keyword match in a row above the header row      *)
(* never determines a returned column index.                               *)
(***************************************************************************)
\* The secondary keys of the returned header_info that hold a column.
ReturnedKeys ==
    LET keys == SecondaryKeys(h_kind)
    IN  { keys[k] : k \in { j \in DOMAIN keys : h_return[keys[j]] # 0 } }

C29_ColumnsFromHeaderRow ==
    (h_pc = "done" /\ h_return # NotFound) =>
        \A key \in ReturnedKeys :
            Branch(h_kind, h_sheet[h_return.header_row][h_return[key]]) = key

-----------------------------------------------------------------------------
(* Side-table merge: OperationTableReader._merge_operation_data             *)

EmployeeNames(bound) == { << "e1", "e2", "e3", "e4" >>[k] : k \in 1..bound }

\* Entries of the manual-fee sub-table (Sheet1).
ManualFeeEntries ==
    { [body_count |-> 2, face_count |-> 1], [body_count |-> 0, face_count |-> 3] }

\* Entries of the attendance sub-table (Sheet2).
AttendanceEntries ==
    { [rest_days |-> 6, actual_absent_days |-> 2, late_count |-> 1, training_days |-> 1,
       work_days |-> 24, personal_tax_amount |-> 45],
      [rest_days |-> 1, actual_absent_days |-> -3, late_count |-> 0, training_days |-> 0,
       work_days |-> 29, personal_tax_amount |-> 0] }

ManualFeeTables(bound) ==
    UNION { [names -> ManualFeeEntries] : names \in SUBSET EmployeeNames(bound) }

AttendanceTables(bound) ==
    UNION { [names -> AttendanceEntries] : names \in SUBSET EmployeeNames(bound) }

AllEmployeesMutant(manual, attendance) == DOMAIN manual
\* all_employees = set(manual_fee_data.keys()) | set(attendance_data.keys())
AllEmployees(manual, attendance) == DOMAIN manual \cup DOMAIN attendance

\* manual_fee_data.get(employee_name, {'body_count': 0, 'face_count': 0})
ManualDataOf(manual, name) ==
    IF name \in DOMAIN manual THEN manual[name]
    ELSE [body_count |-> 0, face_count |-> 0]

\* attendance_data.get(employee_name, {... 0 ...})
AttendanceOf(attendance, name) ==
    IF name \in DOMAIN attendance THEN attendance[name]
    ELSE [rest_days |-> 0, actual_absent_days |-> 0, late_count |-> 0,
          training_days |-> 0, work_days |-> 0, personal_tax_amount |-> 0]

\* combined_data[employee_name] = {...}
MergedEntry(manual, attendance, name) ==
    LET manual_data == ManualDataOf(manual, name)
        attendance_entry == AttendanceOf(attendance, name)
    IN  [body_count |-> manual_data.body_count,
         face_count |-> manual_data.face_count,
         rest_days |-> attendance_entry.rest_days,
         actual_absent_days |-> attendance_entry.actual_absent_days,
         late_count |-> attendance_entry.late_count,
         training_days |-> attendance_entry.training_days,
         work_days |-> attendance_entry.work_days,
         personal_tax_amount |-> attendance_entry.personal_tax_amount]

MergeIdle ==
    /\ manual_fee_data = << >>
    /\ attendance_data = << >>
    /\ combined_data = << >>
    /\ m_pc = "done"

\* One iteration of `for employee_name in all_employees` (a set: any order),
\* or the return.
MergeEmployee ==
    /\ m_pc = "loop"
    /\ LET todo == AllEmployees(manual_fee_data, attendance_data) \ DOMAIN combined_data
       IN  IF todo = {}
           THEN /\ m_pc' = "done"
                /\ UNCHANGED combined_data
           ELSE \E employee_name \in todo :
                /\ combined_data' =
                      (employee_name :> MergedEntry(manual_fee_data, attendance_data,
                                                    employee_name)) @@ combined_data
                /\ UNCHANGED m_pc
    /\ UNCHANGED << manual_fee_data, attendance_data >>
    /\ UNCHANGED not_merge_vars

MergeStep == MergeEmployee

(***************************************************************************)
(* C17: the keys of the merged operation data are the union of the         *)
(* employee names of the manual-fee and of the attendance sub-table; an    *)
(* employee present in only one sub-table has 0 in every field of the      *)
(* other, and the fields of a sub-table the employee is in are copied      *)
(* unchanged.                                                              *)
(***************************************************************************)
ManualFields == {"body_count", "face_count"}

AttendanceFields ==
    {"rest_days", "actual_absent_days", "late_count", "training_days", "work_days",
     "personal_tax_amount"}

C17_OuterUnionMerge ==
    /\ m_pc = "done" =>
          DOMAIN combined_data = DOMAIN manual_fee_data \cup DOMAIN attendance_data
    /\ \A name \in DOMAIN combined_data :
          /\ DOMAIN combined_data[name] = ManualFields \cup AttendanceFields
          /\ \A f \in ManualFields :
                combined_data[name][f] =
                    (IF name \in DOMAIN manual_fee_data THEN manual_fee_data[name][f] ELSE 0)
          /\ \A f \in AttendanceFields :
                combined_data[name][f] =
                    (IF name \in DOMAIN attendance_data THEN attendance_data[name][f] ELSE 0)

\* One employee only in the manual-fee table, one only in the attendance table.
C17_Witness ==
    /\ m_pc = "done"
    /\ \E a, b \in DOMAIN combined_data :
          /\ a \in DOMAIN manual_fee_data /\ a \notin DOMAIN attendance_data
          /\ b \in DOMAIN attendance_data /\ b \notin DOMAIN manual_fee_data
          /\ combined_data[a].body_count = 2
          /\ combined_data[a].rest_days = 0
          /\ combined_data[b].actual_absent_days = -3
          /\ combined_data[b].face_count = 0

-----------------------------------------------------------------------------
(* Numeric normalisation: SalaryExcelReader._convert_to_number,             *)
(* OperationTableReader._convert_to_number and                              *)
(* SalaryExcelReader._process_number_value                                  *)

\* A string is a sequence of characters.  The full-width comma U+FF0C is
\* written as one character.
FullWidthComma == "fullwidth_comma"

DigitChars == {"0", "1", "5"}

DigitValue(c) == CASE c = "0" -> 0 [] c = "1" -> 1 [] c = "5" -> 5

\* str.replace(ch, '')
RECURSIVE Remove(_, _)
Remove(str, ch) ==
    IF str = << >> THEN << >>
    ELSE IF Head(str) = ch THEN Remove(Tail(str), ch)
    ELSE << Head(str) >> \o Remove(Tail(str), ch)

Contains(str, ch) == \E k \in DOMAIN str : str[k] = ch

\* The integer written by a sequence of digit characters.
RECURSIVE DigitsValue(_)
DigitsValue(str) ==
    IF str = << >> THEN 0
    ELSE 10 * DigitsValue(SubSeq(str, 1, Len(str) - 1)) + DigitValue(str[Len(str)])

RECURSIVE Pow10(_)
Pow10(k) == IF k = 0 THEN 1 ELSE 10 * Pow10(k - 1)

\* The characters before the decimal point, and those after it.
IntPart(str) ==
    IF Contains(str, ".")
    THEN SubSeq(str, 1, (CHOOSE k \in DOMAIN str : str[k] = "." /\ \A j \in 1..(k - 1) : str[j] # ".") - 1)
    ELSE str

FracPart(str) ==
    IF Contains(str, ".")
    THEN SubSeq(str, (CHOOSE k \in DOMAIN str : str[k] = "." /\ \A j \in 1..(k - 1) : str[j] # ".") + 1,
                Len(str))
    ELSE << >>

AllDigits(str) == \A k \in DOMAIN str : str[k] \in DigitChars

\* float(str): surrounding whitespace is ignored; digits with at most one
\* decimal point and at least one digit are accepted; anything else raises
\* ValueError (ok = FALSE).
PyFloat(str) ==
    LET t == Strip(str)
        ip == IntPart(t)
        fp == FracPart(t)
    IN  IF AllDigits(ip) /\ AllDigits(fp) /\ Len(ip) + Len(fp) > 0
        THEN [ok |-> TRUE, v |-> Rat(DigitsValue(ip) * Pow10(Len(fp)) + DigitsValue(fp),
                                     Pow10(Len(fp)))]
        ELSE [ok |-> FALSE, v |-> Num(0)]

\* int(str)
PyInt(str) ==
    LET t == Strip(str)
    IN  IF AllDigits(t) /\ Len(t) > 0
        THEN [ok |-> TRUE, v |-> Num(DigitsValue(t))]
        ELSE [ok |-> FALSE, v |-> Num(0)]

\* _convert_to_number for a str value (the same code in both readers).
ConvertToNumber(value) ==
    LET cleaned == Strip(Remove(Remove(value, ","), " "))
    IN  IF cleaned # << >>
        THEN IF PyFloat(cleaned).ok THEN PyFloat(cleaned).v ELSE Num(0)
        ELSE Num(0)

\* SalaryExcelReader._process_number_value
ProcessNumberValue(value_str) ==
    IF value_str = << >> THEN Num(0)
    ELSE LET cleaned_value == Remove(value_str, ",")
             parsed == IF Contains(cleaned_value, ".") THEN PyFloat(cleaned_value)
                       ELSE PyInt(cleaned_value)
         IN  IF parsed.ok THEN parsed.v ELSE Num(0)

ConversionFunctions ==
    { "SalaryExcelReader._convert_to_number", "OperationTableReader._convert_to_number",
      "SalaryExcelReader._process_number_value" }

Convert(function, str) ==
    IF function = "SalaryExcelReader._process_number_value"
    THEN ProcessNumberValue(str)
    ELSE ConvertToNumber(str)

\* The numeric strings of up to `bound` characters.
NumericStrings(bound) ==
    { str \in UNION { [1..n -> DigitChars \cup {"."}] : n \in 1..bound } :
        /\ AllDigits(IntPart(str)) /\ AllDigits(FracPart(str))
        /\ Len(IntPart(str)) > 0
        /\ IntPart(str)[1] # "0" }

\* Digits grouped in threes from the right, with sep between the groups.
RECURSIVE Grouped(_, _)
Grouped(digits, sep) ==
    IF Len(digits) <= 3 THEN digits
    ELSE Grouped(SubSeq(digits, 1, Len(digits) - 3), sep)
         \o << sep >> \o SubSeq(digits, Len(digits) - 2, Len(digits))

\* The string with thousands separators in its integer part.
WithSeparators(str, sep) ==
    Grouped(IntPart(str), sep)
    \o (IF Contains(str, ".") THEN << "." >> \o FracPart(str) ELSE << >>)

NumberIdle ==
    /\ n_function = "SalaryExcelReader._convert_to_number"
    /\ n_string = << >>
    /\ n_separator = ","
    /\ n_plain = Num(0)
    /\ n_separated = Num(0)
    /\ n_pc = "returned"

\* The conversion applied to the string and to the string with separators.
ConvertNumbers ==
    /\ n_pc = "call"
    /\ n_plain' = Convert(n_function, n_string)
    /\ n_separated' = Convert(n_function, WithSeparators(n_string, n_separator))
    /\ n_pc' = "returned"
    /\ UNCHANGED << n_function, n_string, n_separator >>
    /\ UNCHANGED not_number_vars

NumberStep == ConvertNumbers

(***************************************************************************)
(* C18: inserting thousands separators (ASCII comma or full-width comma)   *)
(* into a numeric string does not change the normalised value, in the      *)
(* salary reader and in the operation-table reader.                        *)
(***************************************************************************)
C18_SeparatorsIgnored ==
    n_pc = "returned" => n_separated = n_plain

-----------------------------------------------------------------------------
(* Cell writes on a sheet with merged ranges: ExcelWriter._safe_write_cell  *)
(* and the direct assignments worksheet[address] = value of                 *)
(* SalaryExcelWriter                                                        *)

Addresses(rows, cols) == (1..rows) \X (1..cols)

\* A merged range covers at least two cells.
CellRanges(rows, cols) ==
    { r \in [min_row : 1..rows, max_row : 1..rows, min_col : 1..cols, max_col : 1..cols] :
        /\ r.min_row <= r.max_row
        /\ r.min_col <= r.max_col
        /\ (r.min_row < r.max_row \/ r.min_col < r.max_col) }

\* cell.coordinate in merged_range
InRange(addr, r) ==
    /\ r.min_row <= addr[1] /\ addr[1] <= r.max_row
    /\ r.min_col <= addr[2] /\ addr[2] <= r.max_col

Anchor(r) == << r.min_row, r.min_col >>

Disjoint(r1, r2) ==
    \/ r1.max_row < r2.min_row \/ r2.max_row < r1.min_row
    \/ r1.max_col < r2.min_col \/ r2.max_col < r1.min_col

\* The merged ranges of a sheet do not overlap.
MergedRanges(rows, cols) ==
    { rs \in SUBSET CellRanges(rows, cols) :
        /\ Cardinality(rs) <= 2
        /\ \A r1, r2 \in rs : r1 # r2 => Disjoint(r1, r2) }

Merged(ranges, addr) == \E r \in ranges : InRange(addr, r)

RangeOf(ranges, addr) == CHOOSE r \in ranges : InRange(addr, r)

\* A non-anchor cell of a merged range.
MergedMember(ranges, addr) ==
    Merged(ranges, addr) /\ addr # Anchor(RangeOf(ranges, addr))

\* The sheet as loaded from the template: merged member cells are empty,
\* every other cell holds the template's value.
TemplateCells(ranges, rows, cols) ==
    [ addr \in Addresses(rows, cols) |->
        IF MergedMember(ranges, addr) THEN "None" ELSE "template" ]

\* _safe_write_cell: the target is the top-left cell of the merged range that
\* holds the address, else the cell itself.
TargetCell(ranges, addr) ==
    IF Merged(ranges, addr) THEN Anchor(RangeOf(ranges, addr)) ELSE addr

CellWriters == { "ExcelWriter._safe_write_cell", "SalaryExcelWriter.worksheet[cell] = value" }

CellIdle ==
    /\ c_writer = "ExcelWriter._safe_write_cell"
    /\ c_merged_cells = "read_only"
    /\ c_ranges = {}
    /\ c_cells = << >>
    /\ c_target = << 0, 0 >>
    /\ c_illegal = FALSE
    /\ c_pc = "returned"

\* ExcelWriter._safe_write_cell(worksheet, row, col, value): an exception of
\* the assignment is caught and False is returned.
SafeWriteCellCall ==
    /\ c_pc = "call"
    /\ c_writer = "ExcelWriter._safe_write_cell"
    /\ c_cells' = IF c_illegal THEN c_cells
                  ELSE [c_cells EXCEPT ![TargetCell(c_ranges, c_target)] = "value"]
    /\ c_pc' = "returned"
    /\ UNCHANGED << c_writer, c_merged_cells, c_ranges, c_target, c_illegal >>
    /\ UNCHANGED not_cell_vars

\* SalaryExcelWriter: worksheet[address] = value assigns to the cell at the
\* address itself.  A merged member cell is either a read-only MergedCell, and
\* the assignment raises, or a plain cell that takes the value.
DirectAssignment ==
    /\ c_pc = "call"
    /\ c_writer = "SalaryExcelWriter.worksheet[cell] = value"
    /\ IF c_illegal \/ (MergedMember(c_ranges, c_target) /\ c_merged_cells = "read_only")
       THEN /\ c_pc' = "raised"
            /\ UNCHANGED c_cells
       ELSE /\ c_pc' = "returned"
            /\ c_cells' = [c_cells EXCEPT ![c_target] = "value"]
    /\ UNCHANGED << c_writer, c_merged_cells, c_ranges, c_target, c_illegal >>
    /\ UNCHANGED not_cell_vars

CellStep == SafeWriteCellCall \/ DirectAssignment

(***************************************************************************)
(* C19: every cell write of a composer whose target address lies inside a  *)
(* merged range changes the value of the range's top-left anchor cell and  *)
(* of no non-anchor member cell, on every write path.                      *)
(***************************************************************************)
C19_MergedWriteHitsAnchor ==
    (c_pc # "call" /\ c_ranges # {} /\ Merged(c_ranges, c_target)) =>
        /\ c_cells[Anchor(RangeOf(c_ranges, c_target))] = "value"
        /\ \A addr \in DOMAIN c_cells :
               (InRange(addr, RangeOf(c_ranges, c_target))
                /\ addr # Anchor(RangeOf(c_ranges, c_target))) => c_cells[addr] = "None"

-----------------------------------------------------------------------------
(* Sheet names of SalaryExcelWriter.process_multiple_salary_to_single_file: *)
(* _sanitize_sheet_name, _get_unique_sheet_name and create_sheet            *)

\* Excel's limit on the length of a sheet name.
MaxSheetNameLength == 31

unsafe_chars == {"[", "]", ":", "*", "?", "/", "\\"}

\* A name of n characters "x".
LongName(n) == [k \in 1..n |-> "x"]

\* Employee names as _extract_employee_name_from_sheet returns them: not
\* empty, no surrounding whitespace.
EmployeeNameChoices ==
    { << "a" >>, << "A" >>, << "a", "_", "1" >>, << "a", "?" >>, << "a", "1" >>,
      LongName(MaxSheetNameLength), LongName(MaxSheetNameLength + 2),
      LongName(MaxSheetNameLength - 2) \o << "_", "1" >> }

\* Each employee has a name and a role whose template file exists or not.
EmployeesData(bound) ==
    UNION { [1..n -> [name : EmployeeNameChoices, template : BOOLEAN]] : n \in 1..bound }

\* _sanitize_sheet_name
SanitizeSheetName(name) ==
    LET replaced == [k \in DOMAIN name |-> IF name[k] \in unsafe_chars THEN "_" ELSE name[k]]
        safe_name == IF Len(replaced) > MaxSheetNameLength
                     THEN SubSeq(replaced, 1, MaxSheetNameLength)
                     ELSE replaced
    IN  Strip(safe_name)

\* str(counter)
RECURSIVE CounterText(_)
CounterText(n) ==
    IF n < 10 THEN << Digit(n) >> ELSE CounterText(n \div 10) \o << Digit(n % 10) >>

\* candidate_name of _get_unique_sheet_name
CandidateName(preferred_name, counter) ==
    LET suffix == << "_" >> \o CounterText(counter)
    IN  IF Len(preferred_name) + Len(suffix) > MaxSheetNameLength
        THEN SubSeq(preferred_name, 1, MaxSheetNameLength - Len(suffix)) \o suffix
        ELSE preferred_name \o suffix

\* _get_unique_sheet_name: the preferred name if no sheet has it, else the
\* candidate of the least counter that no sheet has.
GetUniqueSheetName(existing_names, preferred_name) ==
    LET taken == { existing_names[k] : k \in DOMAIN existing_names }
    IN  IF preferred_name \notin taken THEN preferred_name
        ELSE CandidateName(preferred_name,
                 CHOOSE counter \in 1..(Len(existing_names) + 1) :
                     /\ CandidateName(preferred_name, counter) \notin taken
                     /\ \A d \in 1..(counter - 1) : CandidateName(preferred_name, d) \in taken)

\* str.lower()
LowerChar(c) == IF c = "A" THEN "a" ELSE c

Lower(str) == [k \in DOMAIN str |-> LowerChar(str[k])]

\* ",".join(names)
RECURSIVE JoinNames(_)
JoinNames(names) ==
    IF names = << >> THEN << >>
    ELSE IF Len(names) = 1 THEN names[1]
    ELSE names[1] \o << "," >> \o JoinNames(Tail(names))

IsDigitChar(c) == \E n \in 0..9 : Digit(n) = c

DigitCharValue(c) == CHOOSE n \in 0..9 : Digit(n) = c

RECURSIVE DecimalValue(_)
DecimalValue(str) ==
    IF str = << >> THEN 0
    ELSE 10 * DecimalValue(SubSeq(str, 1, Len(str) - 1)) + DigitCharValue(str[Len(str)])

\* The first position from p on that holds no digit.
RECURSIVE DigitRunEnd(_, _)
DigitRunEnd(str, p) ==
    IF p <= Len(str) /\ IsDigitChar(str[p]) THEN DigitRunEnd(str, p + 1) ELSE p

\* The counts found by the library's search of the joined sheet names for the
\* value followed by digits, letter case ignored.
RECURSIVE TitleCounts(_, _, _)
TitleCounts(str, p, value) ==
    IF p > Len(str) THEN {}
    ELSE IF /\ p + Len(value) - 1 <= Len(str)
            /\ Lower(SubSeq(str, p, p + Len(value) - 1)) = Lower(value)
         THEN LET q == p + Len(value)
                  e == DigitRunEnd(str, q)
                  next == IF e <= Len(str) /\ str[e] = "," THEN e + 1 ELSE e
              IN  (IF e > q THEN {DecimalValue(SubSeq(str, q, e - 1))} ELSE {})
                  \cup TitleCounts(str, next, value)
         ELSE TitleCounts(str, p + 1, value)

Highest(counts) == IF counts = {} THEN 0 ELSE CHOOSE m \in counts : \A c \in counts : c <= m

\* The title the workbook gives a sheet created with create_sheet(title=value):
\* an empty value becomes "Sheet", and a value that equals the title of a
\* sheet of the workbook, letter case ignored, gets the next free number
\* appended.
CreateSheetTitle(titles, title) ==
    LET value == IF title = << >> THEN << "S", "h", "e", "e", "t" >> ELSE title
    IN  IF \E k \in DOMAIN titles : Lower(titles[k]) = Lower(value)
        THEN value \o CounterText(Highest(TitleCounts(JoinNames(titles), 1, value)) + 1)
        ELSE value

\* [ws.title for ws in workbook.worksheets]
SheetTitles(shs) == [k \in DOMAIN shs |-> shs[k].title]

SheetIdle ==
    /\ employees_data = << >>
    /\ emp_index = 0
    /\ sheets = << >>
    /\ sheet_pc = "done"

\* One iteration of `for emp_data in employees_data`: an employee whose
\* template is missing is skipped; else the sheet is created under the unique
\* name.  What follows in the iteration leaves the sheet titles alone.
ComposeSheet ==
    /\ sheet_pc = "loop"
    /\ LET emp_data == employees_data[emp_index]
           safe_name == SanitizeSheetName(emp_data.name)
           unique_name == GetUniqueSheetName(SheetTitles(sheets), safe_name)
       IN  sheets' = IF emp_data.template
                     THEN Append(sheets,
                                 [employee |-> emp_index,
                                  unique_name |-> unique_name,
                                  title |-> CreateSheetTitle(SheetTitles(sheets), unique_name)])
                     ELSE sheets
    /\ IF emp_index < Len(employees_data)
       THEN /\ emp_index' = emp_index + 1
            /\ UNCHANGED sheet_pc
       ELSE /\ sheet_pc' = "done"
            /\ UNCHANGED emp_index
    /\ UNCHANGED employees_data
    /\ UNCHANGED not_sheet_vars

SheetStep == ComposeSheet

(***************************************************************************)
(* C20: for any sequence of employee names, the sheet names chosen by      *)
(* _sanitize_sheet_name and _get_unique_sheet_name are pairwise distinct   *)
(* within the output workbook, each at most 31 characters long, and a      *)
(* collision is resolved with a suffix _1, _2, ...                         *)
(***************************************************************************)
C20_SheetNamesDistinct ==
    /\ \A j, k \in DOMAIN sheets :
           j # k => sheets[j].unique_name # sheets[k].unique_name
    /\ \A j \in DOMAIN sheets :
           /\ Len(sheets[j].unique_name) <= MaxSheetNameLength
           /\ LET safe_name == SanitizeSheetName(employees_data[sheets[j].employee].name)
              IN  \/ sheets[j].unique_name = safe_name
                  \/ \E counter \in 1..Len(employees_data) :
                         sheets[j].unique_name = CandidateName(safe_name, counter)

-----------------------------------------------------------------------------
(* Filling the sheet: SalaryExcelWriter._fill_salary_data                    *)

\* template_mapping['salary_items']: quantity, rate and amount cell of an item.
salary_mapping ==
    [ base_salary |-> << "C6", "D6", "E6" >>,
      floating_salary |-> << "C7", "D7", "E7" >>,
      expert_commission |-> << "C8", "D8", "E8" >>,
      service_commission |-> << "C8", "D8", "E8" >>,
      operation_commission |-> << "C8", "D8", "E8" >>,
      training_allowance |-> << "C10", "D10", "E10" >>,
      body_manual_fee |-> << "C11", "D11", "E11" >>,
      face_manual_fee |-> << "C12", "D12", "E12" >> ]

total_salary_cell == "E13"

\* template_mapping['deduction_items']
deduction_mapping ==
    [ absent_deduction |-> << "C16", "D16", "E16" >>,
      late_deduction |-> << "C17", "D17", "E17" >>,
      social_security |-> << "C18", "D18", "E18" >>,
      personal_tax |-> << "C19", "D19", "E19" >> ]

total_deduction_cell == "E20"

net_cell == "E22"

\* salary_items of _fill_salary_data for a role, in the order of the loop.
SalaryItems(job) ==
    << "base_salary", "floating_salary", "training_allowance", "body_manual_fee",
       "face_manual_fee", CommissionOf[job] >>

deduction_items_with_quantity ==
    << "absent_deduction", "late_deduction", "social_security", "personal_tax" >>

\* quantity_key, rate_key and amount_key of an item.
ItemKeys(item) == CHOOSE l \in OtherLines \cup CommissionLines : l[3] = item

SheetCells ==
    UNION { {salary_mapping[k][1], salary_mapping[k][2], salary_mapping[k][3]} :
              k \in DOMAIN salary_mapping }
    \cup UNION { {deduction_mapping[k][1], deduction_mapping[k][2], deduction_mapping[k][3]} :
                   k \in DOMAIN deduction_mapping }
    \cup {total_salary_cell, total_deduction_cell, net_cell}

\* What a cell holds: what the template had, a number, or a formula over cells.
TemplateContent == [kind |-> "template", v |-> Num(0), refs |-> << >>]
Literal(x) == [kind |-> "literal", v |-> x, refs |-> << >>]
ProductFormula(q, r) == [kind |-> "product", v |-> Num(0), refs |-> << q, r >>]
SumFormula(cells) == [kind |-> "sum", v |-> Num(0), refs |-> cells]
AddFormula(a, b) == [kind |-> "add", v |-> Num(0), refs |-> << a, b >>]

\* int(x): truncation towards zero
PyIntOf(x) == IF x.n >= 0 THEN x.n \div x.d ELSE -((-x.n) \div x.d)

\* round(x, places): to the nearest, a tie to the even digit
PyRound(x, places) ==
    LET scaled == RMul(x, Num(Pow10(places)))
        low == scaled.n \div scaled.d
        twice == 2 * (scaled.n - low * scaled.d)
        up == \/ twice > scaled.d
              \/ (twice = scaled.d /\ low % 2 = 1)
    IN  Rat(IF up THEN low + 1 ELSE low, Pow10(places))

\* One iteration of the loops over the items: quantity as an integer, rate
\* rounded (a commission rate as a fraction of 1), amount as `=Q*R`.
FillItem(ws, calc, item, cells, percent) ==
    LET keys == ItemKeys(item)
        has_q == keys[1] \in DOMAIN calc
        has_r == keys[2] \in DOMAIN calc
        ws1 == IF has_q THEN [ws EXCEPT ![cells[1]] = Literal(Num(PyIntOf(calc[keys[1]])))]
               ELSE ws
        ws2 == IF has_r
               THEN [ws1 EXCEPT ![cells[2]] =
                        Literal(IF percent THEN PyRound(RDiv(calc[keys[2]], Num(100)), 4)
                                ELSE PyRound(calc[keys[2]], 2))]
               ELSE ws1
    IN  IF has_q /\ has_r THEN [ws2 EXCEPT ![cells[3]] = ProductFormula(cells[1], cells[2])]
        ELSE ws2

RECURSIVE FillItems(_, _, _, _)
FillItems(ws, calc, items, mapping) ==
    IF items = << >> THEN ws
    ELSE FillItems(FillItem(ws, calc, Head(items), mapping[Head(items)],
                            Head(items) \in {"expert_commission", "service_commission",
                                             "operation_commission"}),
                   calc, Tail(items), mapping)

\* The amount cells of the items, in order.
AmountCells(items, mapping) == [k \in DOMAIN items |-> mapping[items[k]][3]]

\* _fill_salary_data(worksheet, calculated_data, job_type)
FillSalary(ws, calc, job) ==
    LET ws1 == FillItems(ws, calc, SalaryItems(job), salary_mapping)
        ws2 == [ws1 EXCEPT ![total_salary_cell] =
                   SumFormula(AmountCells(SalaryItems(job), salary_mapping))]
        ws3 == FillItems(ws2, calc, deduction_items_with_quantity, deduction_mapping)
        ws4 == [ws3 EXCEPT ![total_deduction_cell] =
                   SumFormula(AmountCells(deduction_items_with_quantity, deduction_mapping))]
    IN  [ws4 EXCEPT ![net_cell] = AddFormula(total_salary_cell, total_deduction_cell)]

\* The value a spreadsheet computes for a cell; a cell left as the template
\* had it has no value known from this record.
RECURSIVE Evaluate(_, _)
Evaluate(ws, cell) ==
    LET content == ws[cell]
        args == [k \in DOMAIN content.refs |-> Evaluate(ws, content.refs[k])]
        known == \A k \in DOMAIN args : args[k].known
    IN  CASE content.kind = "literal" -> [known |-> TRUE, v |-> content.v]
          [] content.kind = "template" -> [known |-> FALSE, v |-> Num(0)]
          [] content.kind = "product" ->
                [known |-> known, v |-> IF known THEN RMul(args[1].v, args[2].v) ELSE Num(0)]
          [] content.kind \in {"sum", "add"} ->
                [known |-> known,
                 v |-> IF known THEN RSum([k \in DOMAIN args |-> args[k].v]) ELSE Num(0)]

FillIdle ==
    /\ worksheet = << >>
    /\ fill_pc = "done"

\* process_salary_file: _fill_salary_data on what _calculate_salary_data returned
FillSalaryData ==
    /\ s_pc = "returned"
    /\ fill_pc = "fill"
    /\ worksheet' = FillSalary(worksheet, calculated, job_type)
    /\ fill_pc' = "done"
    /\ UNCHANGED not_fill_vars

FillStep == CalculateSalary \/ FillSalaryData

\* The pay lines of a record of the role.
RecordItems(job) ==
    { << SalaryItems(job)[k], salary_mapping[SalaryItems(job)[k]] >> : k \in 1..6 }
    \cup { << deduction_items_with_quantity[k],
              deduction_mapping[deduction_items_with_quantity[k]] >> : k \in 1..4 }

Computed(key, cell) ==
    /\ key \in DOMAIN calculated
    /\ Evaluate(worksheet, cell) = [known |-> TRUE, v |-> calculated[key]]

(***************************************************************************)
(* C21: after _fill_salary_data every pay line's amount cell holds the     *)
(* formula quantity cell * rate cell of that line, the gross-total,        *)
(* deduction-total and net-pay cells hold SUM / addition formulas that     *)
(* reference only cells written for this record, and every formula         *)
(* evaluates to the value _calculate_salary_data computed.                 *)
(***************************************************************************)
C21_FormulasMatchComputation ==
    (fill_pc = "done" /\ worksheet # << >>) =>
        /\ \A it \in RecordItems(job_type) :
               /\ worksheet[it[2][3]] = ProductFormula(it[2][1], it[2][2])
               /\ Computed(it[1], it[2][3])
        /\ \A cell \in {total_salary_cell, total_deduction_cell, net_cell} :
               /\ worksheet[cell].kind \in {"sum", "add"}
               /\ \A k \in DOMAIN worksheet[cell].refs :
                      worksheet[worksheet[cell].refs[k]].kind # "template"
        /\ Computed("total_salary", total_salary_cell)
        /\ Computed("total_deduction", total_deduction_cell)
        /\ Computed("net_salary", net_cell)

-----------------------------------------------------------------------------
(* Sheet dimensions: SalaryExcelWriter._copy_worksheet_content               *)

\* A row height or column width that is not set is written 0.
Unset == 0

TemplateHeights == {Unset, 15, 30}

TemplateWidths == {Unset, 12, 26}

\* `target_ws.column_dimensions[col_letter].width = 26`
fixed_column_width == 26

\* `max(source_ws.max_column, 20)`
min_width_columns == 20

Max2(a, b) == IF a >= b THEN a ELSE b

\* The row heights loop: rows 1..max_row of the source that have a height.
CopyHeights(source, target, max_row) ==
    [ r \in DOMAIN target |->
        IF r <= max_row /\ source[r] # Unset THEN source[r] ELSE target[r] ]

\* The column loop: every column 1..max(max_column, 20) gets width 26.
SetWidths(target, max_column) ==
    [ c \in DOMAIN target |->
        IF c <= Max2(max_column, min_width_columns) THEN fixed_column_width ELSE target[c] ]

CopyIdle ==
    /\ source_heights = << >>
    /\ source_widths = << >>
    /\ source_max_row = 0
    /\ target_heights = << >>
    /\ target_widths = << >>
    /\ copy_pc = "done"

\* `for row_num in range(1, source_ws.max_row + 1)`
CopyRowHeights ==
    /\ copy_pc = "rows"
    /\ target_heights' = CopyHeights(source_heights, target_heights, source_max_row)
    /\ copy_pc' = "columns"
    /\ UNCHANGED << source_heights, source_widths, source_max_row, target_widths >>
    /\ UNCHANGED not_copy_vars

\* `for col_num in range(1, max(source_ws.max_column, 20) + 1)`
SetColumnWidths ==
    /\ copy_pc = "columns"
    /\ target_widths' = SetWidths(target_widths, Len(source_widths))
    /\ copy_pc' = "done"
    /\ UNCHANGED << source_heights, source_widths, source_max_row, target_heights >>
    /\ UNCHANGED not_copy_vars

CopyStep == CopyRowHeights \/ SetColumnWidths

(***************************************************************************)
(* C22: every generated sub-sheet has, for every column and every row of   *)
(* the template, the same column width and the same row height as the      *)
(* template sheet.                                                         *)
(***************************************************************************)
C22_DimensionsPropagated ==
    (copy_pc = "done" /\ source_heights # << >>) =>
        /\ \A r \in DOMAIN source_heights : target_heights[r] = source_heights[r]
        /\ \A c \in DOMAIN source_widths : target_widths[c] = source_widths[c]

-----------------------------------------------------------------------------
(* Performance value: SalaryExcelReader._extract_performance_data            *)

\* What a cell of column L holds: nothing, a number, or text.
EmptyValue == [kind |-> "none", v |-> Num(0), text |-> << >>]
NumberValue(x) == [kind |-> "number", v |-> x, text |-> << >>]
TextValue(str) == [kind |-> "text", v |-> Num(0), text |-> str]

ColumnValues ==
    { EmptyValue, NumberValue(Num(0)), NumberValue(Rat(25, 2)), NumberValue(Num(3)),
      TextValue(<< "x" >>), TextValue(<< "5" >>) }

\* Column L of a sheet whose max_row is at most bound.
Columns(bound) == UNION { [1..n -> ColumnValues] : n \in 1..bound }

\* _convert_to_number(cell_value): None is 0, a number is itself, a string is parsed.
ConvertValue(value) ==
    CASE value.kind = "none" -> Num(0)
      [] value.kind = "number" -> value.v
      [] value.kind = "text" -> ConvertToNumber(value.text)

\* `total_value = last_value * 10000`
performance_factor == 10000

PerformanceIdle ==
    /\ l_column = << >>
    /\ scan_row = 0
    /\ last_value = Num(0)
    /\ total_performance_value = Num(0)
    /\ perf_pc = "done"

\* One iteration of `for row_idx in range(worksheet.max_row, 0, -1)`: a cell
\* that is not None is converted, and the loop leaves only on a value other
\* than 0.
ScanColumnRow ==
    /\ perf_pc = "scan"
    /\ scan_row >= 1
    /\ LET cell_value == l_column[scan_row]
           converted == IF cell_value.kind # "none" THEN ConvertValue(cell_value)
                        ELSE last_value
       IN  /\ last_value' = converted
           /\ IF cell_value.kind # "none" /\ converted # Num(0)
              THEN /\ perf_pc' = "total"
                   /\ UNCHANGED scan_row
              ELSE /\ scan_row' = scan_row - 1
                   /\ perf_pc' = IF scan_row = 1 THEN "total" ELSE "scan"
    /\ UNCHANGED << l_column, total_performance_value >>
    /\ UNCHANGED not_performance_vars

\* After the loop: total_performance_value = last_value * 10000
PerformanceTotal ==
    /\ perf_pc = "total"
    /\ total_performance_value' = RMul(last_value, Num(performance_factor))
    /\ perf_pc' = "done"
    /\ UNCHANGED << l_column, scan_row, last_value >>
    /\ UNCHANGED not_performance_vars

PerformanceStep == ScanColumnRow \/ PerformanceTotal

NonEmptyRows == { r \in DOMAIN l_column : l_column[r].kind # "none" }

LastNonEmptyRow == CHOOSE r \in NonEmptyRows : \A q \in NonEmptyRows : q <= r

(***************************************************************************)
(* C23: total_performance_value is 10000 times the numeric value of the    *)
(* bottom-most non-empty cell of column L, and it is 0 only when the       *)
(* column has no non-empty cell.                                           *)
(***************************************************************************)
C23_LastNonEmptyCell ==
    (perf_pc = "done" /\ l_column # << >>) =>
        /\ NonEmptyRows # {} =>
               total_performance_value =
                   RMul(ConvertValue(l_column[LastNonEmptyRow]), Num(performance_factor))
        /\ total_performance_value = Num(0) => NonEmptyRows = {}

-----------------------------------------------------------------------------
(* Join of employee records with the side table:                            *)
(* OperationTableReader._normalize_employee_name,                           *)
(* SalaryExcelReader._extract_employee_name_from_sheet and the lookup of    *)
(* SalaryProcessorController._process_single_file                           *)

\* The full-width space U+3000, written as one character.
IdeographicSpace == "ideographic_space"

\* What str.strip() and the pattern \s take for whitespace, among the
\* characters of the names below.
NameWhitespace == {" ", IdeographicSpace}

RECURSIVE LStripName(_)
LStripName(str) ==
    IF str # << >> /\ Head(str) \in NameWhitespace THEN LStripName(Tail(str)) ELSE str

RECURSIVE RStripName(_)
RStripName(str) ==
    IF str # << >> /\ str[Len(str)] \in NameWhitespace
    THEN RStripName(SubSeq(str, 1, Len(str) - 1)) ELSE str

\* str.strip()
StripName(str) == RStripName(LStripName(str))

\* _normalize_employee_name: strip, re.sub(r'\s+', '', ...), then
\* replace('　', '').
NormalizeEmployeeName(name) ==
    IF name = << >> THEN << >>
    ELSE LET name_str == StripName(name)
             without == SelectSeq(name_str, LAMBDA ch : ch \notin NameWhitespace)
         IN  Remove(without, IdeographicSpace)

\* The names of excluded_names that can be written with the characters used
\* here.
excluded_names ==
    { << "S", "h", "e", "e", "t" >>, << "T", "e", "s", "t" >> }

\* sheet_name.split('(')[0]
BeforeParenthesis(str) ==
    IF Contains(str, "(")
    THEN SubSeq(str, 1, (CHOOSE k \in DOMAIN str :
                            str[k] = "(" /\ \A j \in 1..(k - 1) : str[j] # "(") - 1)
    ELSE str

\* _extract_employee_name_from_sheet: the part before '(' when the sheet name
\* has both parentheses, stripped; << >> stands for None.
ExtractEmployeeNameFromSheet(sheet_name) ==
    LET name == IF Contains(sheet_name, "(") /\ Contains(sheet_name, ")")
                THEN StripName(BeforeParenthesis(sheet_name))
                ELSE StripName(sheet_name)
    IN  IF name \in excluded_names \/ StripName(name) = << >> THEN << >> ELSE name

\* Names as typed in the name column of the side table.
SideNames ==
    { << "z", "s" >>, << "z", " ", "s" >>, << "l", IdeographicSpace, "s" >>, << " ", "w" >> }

\* Sheet names of an employee workbook.
SheetNames ==
    { << "z", "s" >>,
      << "z", " ", "s", "(", "r", ")" >>,
      << "l", "s", " ", "(", "r", ")" >>,
      << "w", IdeographicSpace >>,
      << "S", "h", "e", "e", "t" >> }

\* Entries of the merged side table.
SideEntries ==
    { [body_count |-> 2, face_count |-> 1, rest_days |-> 6, actual_absent_days |-> 2,
       late_count |-> 1, training_days |-> 1, work_days |-> 24, personal_tax_amount |-> 45],
      [body_count |-> 0, face_count |-> 3, rest_days |-> 4, actual_absent_days |-> 0,
       late_count |-> 0, training_days |-> 0, work_days |-> 26, personal_tax_amount |-> 12] }

SideTables(bound) ==
    UNION { [1..n -> [name : SideNames, entry : SideEntries]] : n \in 0..bound }

Workbooks(bound) == UNION { [1..n -> SheetNames] : n \in 0..bound }

default_operation_data ==
    [body_count |-> 0, face_count |-> 0, rest_days |-> 0, actual_absent_days |-> 0,
     late_count |-> 0, training_days |-> 0, work_days |-> 0, personal_tax_amount |-> 0]

\* self.operation_data.get(key, default_operation_data)
Lookup(table, key) ==
    IF key \in DOMAIN table THEN table[key] ELSE default_operation_data

JoinIdle ==
    /\ side_rows = << >>
    /\ side_idx = 1
    /\ operation_table = << >>
    /\ sheet_names = << >>
    /\ sheet_idx = 1
    /\ joined = << >>
    /\ join_pc = "done"

\* One data row of the side table: the key is the normalized name; a row
\* without a name is skipped, a later row of the same key replaces the entry.
ReadSideRow ==
    /\ join_pc = "read"
    /\ IF side_idx > Len(side_rows)
       THEN /\ join_pc' = "employees"
            /\ UNCHANGED << side_idx, operation_table >>
       ELSE LET employee_name == NormalizeEmployeeName(side_rows[side_idx].name)
            IN  /\ operation_table' =
                      IF employee_name = << >> THEN operation_table
                      ELSE (employee_name :> side_rows[side_idx].entry) @@ operation_table
                /\ side_idx' = side_idx + 1
                /\ UNCHANGED join_pc
    /\ UNCHANGED << side_rows, sheet_names, sheet_idx, joined >>
    /\ UNCHANGED not_join_vars

\* One sheet of the employee workbook: the name is taken from the sheet name
\* and is the key of the lookup as it is.
LookupEmployee ==
    /\ join_pc = "employees"
    /\ IF sheet_idx > Len(sheet_names)
       THEN /\ join_pc' = "done"
            /\ UNCHANGED << sheet_idx, joined >>
       ELSE LET employee_name == ExtractEmployeeNameFromSheet(sheet_names[sheet_idx])
            IN  /\ joined' =
                      IF employee_name = << >> THEN joined
                      ELSE Append(joined, [name |-> employee_name,
                                           operation_data |-> Lookup(operation_table,
                                                                     employee_name)])
                /\ sheet_idx' = sheet_idx + 1
                /\ UNCHANGED join_pc
    /\ UNCHANGED << side_rows, side_idx, operation_table, sheet_names >>
    /\ UNCHANGED not_join_vars

JoinStep == ReadSideRow \/ LookupEmployee

\* The rows of the side table whose name equals the given name after
\* normalization.
MatchingRows(name) ==
    { r \in DOMAIN side_rows :
        /\ NormalizeEmployeeName(side_rows[r].name) # << >>
        /\ NormalizeEmployeeName(side_rows[r].name) = NormalizeEmployeeName(name) }

(***************************************************************************)
(* C30: an employee record receives the entry of the side-table row whose  *)
(* name equals the employee's name after normalization (whitespace, the    *)
(* full-width space included, removed), and only an employee with no such  *)
(* row receives the zero-filled default.                                   *)
(***************************************************************************)
C30_JoinOnNormalizedNames ==
    join_pc = "done" =>
        \A k \in DOMAIN joined :
            LET rows == MatchingRows(joined[k].name)
            IN  IF rows = {}
                THEN joined[k].operation_data = default_operation_data
                ELSE joined[k].operation_data =
                         side_rows[CHOOSE r \in rows : \A q \in rows : q <= r].entry

-----------------------------------------------------------------------------
(* Specifications: one per component *)

InitBatch ==
    /\ excel_files \in ScanResults(FileKinds, MaxFiles)
    /\ BatchIdle
    /\ t_files = << >>
    /\ TeacherIdle
    /\ w_data = << >>
    /\ WriterIdle
    /\ ReaderIdle
    /\ SalaryIdle
    /\ SalaryFilesIdle
    /\ HeaderIdle
    /\ MergeIdle
    /\ NumberIdle
    /\ CellIdle
    /\ SheetIdle
    /\ FillIdle
    /\ CopyIdle
    /\ PerformanceIdle
    /\ JoinIdle

InitTeacher ==
    /\ t_files \in ScanResults(TeacherKinds, MaxTeacherFiles)
    /\ TeacherIdle
    /\ excel_files = << >>
    /\ BatchIdle
    /\ w_data = << >>
    /\ WriterIdle
    /\ ReaderIdle
    /\ SalaryIdle
    /\ SalaryFilesIdle
    /\ HeaderIdle
    /\ MergeIdle
    /\ NumberIdle
    /\ CellIdle
    /\ SheetIdle
    /\ FillIdle
    /\ CopyIdle
    /\ PerformanceIdle
    /\ JoinIdle

SpecBatch == InitBatch /\ [][BatchStep]_vars
\* The same batches with the worker thread scheduled fairly.
SpecBatchFair == SpecBatch /\ WF_vars(BatchWorker)

InitWriter ==
    /\ w_data \in DataLists(MaxDataRows)
    /\ WriterIdle
    /\ ReaderIdle
    /\ SalaryIdle
    /\ SalaryFilesIdle
    /\ HeaderIdle
    /\ MergeIdle
    /\ NumberIdle
    /\ CellIdle
    /\ SheetIdle
    /\ excel_files = << >>
    /\ BatchIdle
    /\ t_files = << >>
    /\ TeacherIdle
    /\ FillIdle
    /\ CopyIdle
    /\ PerformanceIdle
    /\ JoinIdle

InitReader ==
    /\ r_fmt \in {"xlsx", "xls"}
    /\ r_cfg \in Configs
    /\ r_grid \in Grids(r_fmt, MaxGridRows)
    /\ current_row = IF r_fmt = "xlsx" THEN r_cfg.start_row ELSE r_cfg.start_row - 1
    /\ data_list = << >>
    /\ r_examined = {}
    /\ r_pc = "loop"
    /\ excel_files = << >>
    /\ BatchIdle
    /\ t_files = << >>
    /\ TeacherIdle
    /\ w_data = << >>
    /\ WriterIdle
    /\ SalaryIdle
    /\ SalaryFilesIdle
    /\ HeaderIdle
    /\ MergeIdle
    /\ NumberIdle
    /\ CellIdle
    /\ SheetIdle
    /\ FillIdle
    /\ CopyIdle
    /\ PerformanceIdle
    /\ JoinIdle

InitSalary ==
    /\ job_type \in JobTypes
    /\ user_config \in UserConfigs
    /\ performance_value \in PerformanceValues
    /\ operation_data \in OperationData
    /\ current_month_days \in MonthDays
    /\ calculated = << >>
    /\ returned_maps = << >>
    /\ s_pc = "call"
    /\ excel_files = << >>
    /\ BatchIdle
    /\ t_files = << >>
    /\ TeacherIdle
    /\ w_data = << >>
    /\ WriterIdle
    /\ ReaderIdle
    /\ SalaryFilesIdle
    /\ HeaderIdle
    /\ MergeIdle
    /\ NumberIdle
    /\ CellIdle
    /\ SheetIdle
    /\ FillIdle
    /\ CopyIdle
    /\ PerformanceIdle
    /\ JoinIdle

\* Repeated calls for one employee of each role under every configuration.
InitSalaryRuns ==
    /\ InitSalary
    /\ performance_value = Num(125000)
    /\ operation_data.body_count = Num(0)
    /\ operation_data.late_count = Num(0)
    /\ operation_data.personal_tax_amount = Num(45)

SpecTeacher == InitTeacher /\ [][TeacherStep]_vars
SpecTeacherFair == SpecTeacher /\ WF_vars(TeacherWorker)

SpecReader == InitReader /\ [][ReaderStep]_vars

InitSalaryFiles ==
    /\ sf_files \in SalaryFileLists(MaxSalaryFiles)
    /\ sf_templates \in TemplateConfigs
    /\ sf_max_workers \in {1, 2}
    /\ sf_pc = "idle"
    /\ sf_i = 1
    /\ sf_is_processing = FALSE
    /\ sf_should_stop \in BOOLEAN
    /\ sf_result = NoResult
    /\ sf_file_result = [k \in DOMAIN sf_files |-> NotStarted]
    /\ sf_yielded = {}
    /\ sf_processed = {}
    /\ sf_failed = {}
    /\ excel_files = << >>
    /\ BatchIdle
    /\ t_files = << >>
    /\ TeacherIdle
    /\ w_data = << >>
    /\ WriterIdle
    /\ ReaderIdle
    /\ SalaryIdle
    /\ HeaderIdle
    /\ MergeIdle
    /\ NumberIdle
    /\ CellIdle
    /\ SheetIdle
    /\ FillIdle
    /\ CopyIdle
    /\ PerformanceIdle
    /\ JoinIdle

InitHeader ==
    /\ h_kind \in {"manual_fee", "attendance"}
    /\ h_sheet \in HeaderSheets(h_kind, MaxHeaderRows)
    /\ row_idx = 1
    /\ header_info = NoHeaderInfo
    /\ h_pc = "scan"
    /\ h_return = NotFound
    /\ excel_files = << >>
    /\ BatchIdle
    /\ t_files = << >>
    /\ TeacherIdle
    /\ w_data = << >>
    /\ WriterIdle
    /\ ReaderIdle
    /\ SalaryIdle
    /\ SalaryFilesIdle
    /\ MergeIdle
    /\ NumberIdle
    /\ CellIdle
    /\ SheetIdle
    /\ FillIdle
    /\ CopyIdle
    /\ PerformanceIdle
    /\ JoinIdle

InitMerge ==
    /\ manual_fee_data \in ManualFeeTables(MaxEmployees)
    /\ attendance_data \in AttendanceTables(MaxEmployees)
    /\ combined_data = << >>
    /\ m_pc = "loop"
    /\ excel_files = << >>
    /\ BatchIdle
    /\ t_files = << >>
    /\ TeacherIdle
    /\ w_data = << >>
    /\ WriterIdle
    /\ ReaderIdle
    /\ SalaryIdle
    /\ SalaryFilesIdle
    /\ HeaderIdle
    /\ NumberIdle
    /\ CellIdle
    /\ SheetIdle
    /\ FillIdle
    /\ CopyIdle
    /\ PerformanceIdle
    /\ JoinIdle

InitNumber ==
    /\ n_function \in ConversionFunctions
    /\ n_string \in NumericStrings(MaxChars)
    /\ n_separator \in {",", FullWidthComma}
    /\ n_plain = Num(0)
    /\ n_separated = Num(0)
    /\ n_pc = "call"
    /\ excel_files = << >>
    /\ BatchIdle
    /\ t_files = << >>
    /\ TeacherIdle
    /\ w_data = << >>
    /\ WriterIdle
    /\ ReaderIdle
    /\ SalaryIdle
    /\ SalaryFilesIdle
    /\ HeaderIdle
    /\ MergeIdle
    /\ CellIdle
    /\ SheetIdle
    /\ FillIdle
    /\ CopyIdle
    /\ PerformanceIdle
    /\ JoinIdle

InitCell ==
    /\ c_writer \in CellWriters
    /\ c_merged_cells \in {"read_only", "plain"}
    /\ c_ranges \in MergedRanges(MaxSheetRows, MaxSheetCols)
    /\ c_cells = TemplateCells(c_ranges, MaxSheetRows, MaxSheetCols)
    /\ c_target \in Addresses(MaxSheetRows, MaxSheetCols)
    /\ c_illegal \in BOOLEAN
    /\ c_pc = "call"
    /\ excel_files = << >>
    /\ BatchIdle
    /\ t_files = << >>
    /\ TeacherIdle
    /\ w_data = << >>
    /\ WriterIdle
    /\ ReaderIdle
    /\ SalaryIdle
    /\ SalaryFilesIdle
    /\ HeaderIdle
    /\ MergeIdle
    /\ NumberIdle
    /\ SheetIdle
    /\ FillIdle
    /\ CopyIdle
    /\ PerformanceIdle
    /\ JoinIdle

InitSheet ==
    /\ employees_data \in EmployeesData(MaxSheets)
    /\ emp_index = 1
    /\ sheets = << >>
    /\ sheet_pc = "loop"
    /\ excel_files = << >>
    /\ BatchIdle
    /\ t_files = << >>
    /\ TeacherIdle
    /\ w_data = << >>
    /\ WriterIdle
    /\ ReaderIdle
    /\ SalaryIdle
    /\ SalaryFilesIdle
    /\ HeaderIdle
    /\ MergeIdle
    /\ NumberIdle
    /\ CellIdle
    /\ FillIdle
    /\ CopyIdle
    /\ PerformanceIdle
    /\ JoinIdle

SpecSalary == InitSalary /\ [][SalaryStep]_vars

SpecSalaryFiles == InitSalaryFiles /\ [][SalaryFilesStep]_vars

SpecHeader == InitHeader /\ [][HeaderStep]_vars

SpecMerge == InitMerge /\ [][MergeStep]_vars

SpecNumber == InitNumber /\ [][NumberStep]_vars

SpecCell == InitCell /\ [][CellStep]_vars

SpecSheet == InitSheet /\ [][SheetStep]_vars

SpecSalaryRuns == InitSalaryRuns /\ [][SalaryRunsStep]_vars

SpecWriter == InitWriter /\ [][WriterStep]_vars

InitFill ==
    /\ job_type \in JobTypes
    /\ user_config \in UserConfigs
    /\ performance_value = Num(125000)
    /\ operation_data \in { op \in OperationData :
                              op.late_count = Num(0) /\ op.personal_tax_amount = Num(45) }
    /\ current_month_days \in MonthDays
    /\ calculated = << >>
    /\ returned_maps = << >>
    /\ s_pc = "call"
    /\ worksheet = [cell \in SheetCells |-> TemplateContent]
    /\ fill_pc = "fill"
    /\ excel_files = << >>
    /\ BatchIdle
    /\ t_files = << >>
    /\ TeacherIdle
    /\ w_data = << >>
    /\ WriterIdle
    /\ ReaderIdle
    /\ SalaryFilesIdle
    /\ HeaderIdle
    /\ MergeIdle
    /\ NumberIdle
    /\ CellIdle
    /\ SheetIdle
    /\ CopyIdle
    /\ PerformanceIdle
    /\ JoinIdle

SpecFill == InitFill /\ [][FillStep]_vars

InitCopy ==
    /\ source_heights \in [1..MaxTemplateRows -> TemplateHeights]
    /\ source_widths \in [1..MaxTemplateCols -> TemplateWidths]
    /\ source_max_row \in 1..MaxTemplateRows
    /\ target_heights = [r \in 1..MaxTemplateRows |-> Unset]
    /\ target_widths = [c \in 1..Max2(MaxTemplateCols, min_width_columns) |-> Unset]
    /\ copy_pc = "rows"
    /\ excel_files = << >>
    /\ BatchIdle
    /\ t_files = << >>
    /\ TeacherIdle
    /\ w_data = << >>
    /\ WriterIdle
    /\ ReaderIdle
    /\ SalaryIdle
    /\ SalaryFilesIdle
    /\ HeaderIdle
    /\ MergeIdle
    /\ NumberIdle
    /\ CellIdle
    /\ SheetIdle
    /\ FillIdle
    /\ PerformanceIdle
    /\ JoinIdle

SpecCopy == InitCopy /\ [][CopyStep]_vars

InitPerformance ==
    /\ l_column \in Columns(MaxColumnRows)
    /\ scan_row = Len(l_column)
    /\ last_value = Num(0)
    /\ total_performance_value = Num(0)
    /\ perf_pc = "scan"
    /\ excel_files = << >>
    /\ BatchIdle
    /\ t_files = << >>
    /\ TeacherIdle
    /\ w_data = << >>
    /\ WriterIdle
    /\ ReaderIdle
    /\ SalaryIdle
    /\ SalaryFilesIdle
    /\ HeaderIdle
    /\ MergeIdle
    /\ NumberIdle
    /\ CellIdle
    /\ SheetIdle
    /\ FillIdle
    /\ CopyIdle
    /\ JoinIdle

SpecPerformance == InitPerformance /\ [][PerformanceStep]_vars

InitJoin ==
    /\ side_rows \in SideTables(MaxSideRows)
    /\ side_idx = 1
    /\ operation_table = << >>
    /\ sheet_names \in Workbooks(MaxWorkbookSheets)
    /\ sheet_idx = 1
    /\ joined = << >>
    /\ join_pc = "read"
    /\ excel_files = << >>
    /\ BatchIdle
    /\ t_files = << >>
    /\ TeacherIdle
    /\ w_data = << >>
    /\ WriterIdle
    /\ ReaderIdle
    /\ SalaryIdle
    /\ SalaryFilesIdle
    /\ HeaderIdle
    /\ MergeIdle
    /\ NumberIdle
    /\ CellIdle
    /\ SheetIdle
    /\ FillIdle
    /\ CopyIdle
    /\ PerformanceIdle

SpecJoin == InitJoin /\ [][JoinStep]_vars

=============================================================================
